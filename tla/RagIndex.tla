------------------------------ MODULE RagIndex ------------------------------
(***************************************************************************)
(* infra/rag/local_rag.py and its users: the index of the file chunks in    *)
(* SQLite beside the files it is made from.  A file is a copy of a document *)
(* in a home: the temporary cache (Global) or a project.  Each statement    *)
(* group of the index is a transaction under _db_lock; nothing spans two of *)
(* them.  Tool threads search; the event loop performs one upload, deletion *)
(* or rebuild at a time; the cleanup thread removes temporary files.        *)
(*                                                                          *)
(* The id of a document is the hash of its content, so a row has the version *)
(* of its file.  Scores, limits and the memories' rows are left out.        *)
(***************************************************************************)
EXTENDS Integers, FiniteSets

CONSTANTS
  Docs, Projects,
  Global,       \* the temporary cache, not a project
  Searchers,    \* threads that execute search_files
  Loop,         \* the event loop, not one of them
  MaxRequests,  \* bound on the uploads and rebuilds of a behaviour
  MaxFailures   \* bound on the SQLite errors of a behaviour

VARIABLES
  files,     \* copies on disk
  rows,      \* copies whose chunks are in the index
  gone,      \* projects that were deleted; ids are never used again
  pc, op,    \* of each thread: its next step, and what it is doing
  todo, cur, \* of each thread: paths still to visit, and the one at hand
  listed,    \* of each searcher: the paths it listed at the start
  hits,      \* of each searcher: the copies among its matches
  stays,     \* history: the files that were there since it started
  requests, failures

ragVars == <<files, rows, gone, pc, op, todo, cur, listed, hits, stays, requests, failures>>

Homes == Projects \union {Global}
Copy == [home : Homes, doc : Docs]
Users == Searchers \union {Loop}

Init ==
  /\ files = {} /\ rows = {} /\ gone = {} /\ requests = 0 /\ failures = 0
  /\ pc = [t \in Users |-> "idle"] /\ op = [t \in Users |-> "none"]
  /\ todo = [t \in Users |-> {}] /\ cur = [t \in Users |-> {}]
  /\ listed = [t \in Searchers |-> {}] /\ hits = [t \in Searchers |-> {}]
  /\ stays = [t \in Searchers |-> {}]

Goto(t, s) == pc' = [pc EXCEPT ![t] = s]

\* An operation gets under way with the paths it has to visit.
Starts(t, what, S) ==
  /\ pc[t] = "idle" /\ Goto(t, "pass")
  /\ op' = [op EXCEPT ![t] = what] /\ todo' = [todo EXCEPT ![t] = S]

\* An SQLite error is caught where it happens, and only recorded.
Fails == failures < MaxFailures /\ failures' = failures + 1

Removed(S) ==
  /\ files' = files \ S
  /\ stays' = [t \in Searchers |-> stays[t] \ S]
----------------------------------------------------------------------------
\* index_file_payload, for searches, uploads and rebuilds alike.

\* existing_doc_chunks: what is indexed is the version at hand.
Present(c) == c \in rows

\* delete_items: an empty project_id, that of the temporary cache, is no
\* condition, and the rows of the document go in every home.
Cleared(c) == {r \in rows : r.doc = c.doc /\ c.home \in {r.home, Global}}

\* The temporary cache is listed before the projects; a path whose file is
\* gone by now is passed over.
Visit(t) ==
  /\ pc[t] = "pass"
  /\ \E c \in todo[t] :
       /\ c.home = Global \/ \A o \in todo[t] : o.home # Global
       /\ todo' = [todo EXCEPT ![t] = @ \ {c}]
       /\ IF c \in files THEN cur' = [cur EXCEPT ![t] = {c}] /\ Goto(t, "check")
          ELSE UNCHANGED <<pc, cur>>
  /\ UNCHANGED <<files, rows, gone, op, listed, hits, stays, requests, failures>>

\* An index that cannot be read counts as empty.
Check(t) ==
  /\ pc[t] = "check"
  /\ \/ \E c \in cur[t] : Goto(t, IF Present(c) THEN "pass" ELSE "clear")
        /\ UNCHANGED failures
     \/ Fails /\ Goto(t, "clear")
  /\ UNCHANGED <<files, rows, gone, op, todo, cur, listed, hits, stays, requests>>

ClearRows(t) ==
  /\ pc[t] = "clear" /\ Goto(t, "insert")
  /\ \/ rows' = rows \ UNION {Cleared(c) : c \in cur[t]} /\ UNCHANGED failures
     \/ Fails /\ UNCHANGED rows
  /\ UNCHANGED <<files, gone, op, todo, cur, listed, hits, stays, requests>>

InsertRows(t) ==
  /\ pc[t] = "insert" /\ Goto(t, "pass") /\ cur' = [cur EXCEPT ![t] = {}]
  /\ \/ rows' = rows \union cur[t] /\ UNCHANGED failures
     \/ Fails /\ UNCHANGED rows
  /\ UNCHANGED <<files, gone, op, todo, listed, hits, stays, requests>>

PassEnds(t) ==
  /\ pc[t] = "pass" /\ todo[t] = {}
  /\ Goto(t, IF op[t] = "search" THEN "query" ELSE "idle")
  /\ cur' = [cur EXCEPT ![t] = {}]
  /\ UNCHANGED <<files, rows, gone, op, todo, listed, hits, stays, requests, failures>>
----------------------------------------------------------------------------
\* search_files

Search(t) ==
  /\ Starts(t, "search", files)
  /\ listed' = [listed EXCEPT ![t] = files] /\ stays' = [stays EXCEPT ![t] = files]
  /\ hits' = [hits EXCEPT ![t] = {}]
  /\ UNCHANGED <<files, rows, gone, cur, requests, failures>>

\* local_rag.search: any row may match; it is not asked for its file.
Matches == rows

Query(t) ==
  /\ pc[t] = "query" /\ Goto(t, "rescan")
  /\ \/ hits' = [hits EXCEPT ![t] = Matches] /\ UNCHANGED failures
     \/ Fails /\ UNCHANGED hits
  /\ todo' = [todo EXCEPT ![t] = listed[t]]
  /\ UNCHANGED <<files, rows, gone, op, cur, listed, stays, requests>>

\* Mutant of Readable: what the index has by now is not read again.
ReadableUnindexed(c) == c \in files /\ c \notin rows

Readable(c) == c \in files

\* The files are read and scored a second time.
Rescan(t) ==
  /\ pc[t] = "rescan"
  /\ \E c \in todo[t] :
       /\ todo' = [todo EXCEPT ![t] = @ \ {c}]
       /\ hits' = [hits EXCEPT ![t] = IF Readable(c) THEN @ \union {c} ELSE @]
  /\ UNCHANGED <<files, rows, gone, pc, op, cur, listed, stays, requests, failures>>

Answer(t) ==
  /\ pc[t] = "rescan" /\ todo[t] = {} /\ Goto(t, "idle")
  /\ listed' = [listed EXCEPT ![t] = {}] /\ hits' = [hits EXCEPT ![t] = {}]
  /\ stays' = [stays EXCEPT ![t] = {}]
  /\ UNCHANGED <<files, rows, gone, op, todo, cur, requests, failures>>
----------------------------------------------------------------------------
\* The event loop

\* cache_file_chunks: the file is there before its rows.
Upload(c) ==
  /\ requests < MaxRequests /\ c.home \notin gone
  /\ files' = files \union {c} /\ requests' = requests + 1
  /\ Starts(Loop, "upload", {c})
  /\ UNCHANGED <<rows, gone, cur, listed, hits, stays, failures>>

\* delete_project: the rows, then the directory.
DropRows(p) ==
  /\ pc[Loop] = "idle" /\ p \notin gone
  /\ pc' = [pc EXCEPT ![Loop] = "remove"]
  /\ todo' = [todo EXCEPT ![Loop] = {c \in Copy : c.home = p}]
  /\ op' = [op EXCEPT ![Loop] = "delete"]
  /\ \/ rows' = {r \in rows : r.home # p} /\ UNCHANGED failures
     \/ Fails /\ UNCHANGED rows
  /\ UNCHANGED <<files, gone, cur, listed, hits, stays, requests>>

RemoveTree ==
  /\ pc[Loop] = "remove" /\ Goto(Loop, "idle")
  /\ Removed(todo[Loop]) /\ gone' = gone \union {c.home : c \in todo[Loop]}
  /\ todo' = [todo EXCEPT ![Loop] = {}]
  /\ UNCHANGED <<rows, op, cur, listed, hits, requests, failures>>

\* rebuild_index: everything goes, then every file is indexed again.
Rebuild ==
  /\ requests < MaxRequests /\ requests' = requests + 1
  /\ Starts(Loop, "rebuild", files)
  /\ \/ rows' = {} /\ UNCHANGED failures
     \/ Fails /\ UNCHANGED rows
  /\ UNCHANGED <<files, gone, cur, listed, hits, stays>>

\* cleanup_file_cache removes temporary files, and leaves their rows.
Expire(c) ==
  /\ c \in files /\ c.home = Global /\ Removed({c})
  /\ UNCHANGED <<rows, gone, pc, op, todo, cur, listed, hits, requests, failures>>

Indexing(t) == Visit(t) \/ Check(t) \/ ClearRows(t) \/ InsertRows(t) \/ PassEnds(t)
Searching(t) == Query(t) \/ Rescan(t) \/ Answer(t)

Next ==
  \/ \E t \in Users : Indexing(t)
  \/ \E t \in Searchers : Search(t) \/ Searching(t)
  \/ \E c \in Copy : Upload(c) \/ Expire(c)
  \/ \E p \in Projects : DropRows(p)
  \/ RemoveTree \/ Rebuild

\* Threads run; nobody has to search, upload, delete, rebuild or clean up.
Fairness ==
  /\ \A t \in Users : WF_ragVars(Indexing(t))
  /\ \A t \in Searchers : WF_ragVars(Searching(t))
  /\ WF_ragVars(RemoveTree)

Spec == Init /\ [][Next]_ragVars /\ Fairness
----------------------------------------------------------------------------
TypeOK ==
  /\ files \subseteq Copy /\ rows \subseteq Copy /\ gone \subseteq Projects
  /\ \A t \in Users : /\ todo[t] \subseteq Copy
                      /\ pc[t] \in {"check", "clear", "insert"} => Cardinality(cur[t]) = 1
  /\ \A t \in Searchers : pc[t] # "remove"

(***************************************************************************)
(* What a search finds does not depend on what uploads, rebuilds and other  *)
(* searches do to the index meanwhile: a file that is there from its start  *)
(* to its end is among its matches, also if its rows are missing when the   *)
(* index is asked.                                                         *)
(***************************************************************************)
SearchFindsWhatStays ==
  \A t \in Searchers : pc[t] = "rescan" /\ todo[t] = {} => stays[t] \subseteq hits[t]


(***************************************************************************)
(* docs/API.md:67 "删除项目会级联清理其文件的全部 chunk": a deleted         *)
(* project has no rows.  A search that read the file before the deletion    *)
(* and inserts after it puts them back.                                    *)
(***************************************************************************)
DeletedStaysDeleted == \A r \in rows : r.home \notin gone
=============================================================================

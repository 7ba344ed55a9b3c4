----------------------------- MODULE Workspace -----------------------------
(***************************************************************************)
(* The projects of the workspace (infra/data/projects.py, infra/workspace).*)
(* Each is a directory: project.json with its documents, conversations and *)
(* what its skills produced; a file with the saved items, one with the     *)
(* artifacts, one with the exports; and the cached texts of its documents. *)
(* Artifacts point to files outside of it. All handlers run on the event   *)
(* loop, one at a time, and each file is replaced as a whole; a crash may  *)
(* come between two files.                                                 *)
(***************************************************************************)
EXTENDS Integers, Sequences, SequencesExt, FiniteSets, Lists

CONSTANTS
  Projects, Items,    \* ids that can be drawn; those of saved items and artifacts
  Documents, Chats,   \* files to upload, ids of conversations
  MaxProjects, MaxItems, MaxDocuments, MaxChats, MaxRecent, MaxExports, \* the limits
  Times, MaxVersions, MaxCrashes \* bounds

VARIABLES
  disk,          \* of each project: none, there, gone; halved, torn: see DeleteCutOff
  chats,         \* conversations: their ids and times of change
  saved,         \* saved-items.json
  artifacts,     \* artifacts.json: with the file of each version
  outputs,       \* savedItems and artifacts of project.json: what skills made
  documents,     \* of project.json
  texts,         \* the cached and indexed texts of its documents
  exports,       \* exports.json
  generated,     \* the generated files there are
  strays, crashes \* history: documents of which an upload was cut off, crashes

contents == <<chats, saved, artifacts, outputs, documents, texts, exports>>
history  == <<strays, crashes>>
vars == <<disk, contents, generated, history>>

TypeOK ==
  /\ disk \in [Projects -> {"none", "there", "halved", "torn", "gone"}]
  /\ \A p \in Projects :
       /\ ToSet(chats[p]) \subseteq [id : Chats, at : Times]
       /\ ToSet(saved[p]) \subseteq Items /\ ToSet(outputs[p]) \subseteq Items
       /\ ToSet(artifacts[p]) \subseteq [id : Items, files : Seq(Items)]
       /\ ToSet(documents[p]) \subseteq Documents /\ texts[p] \subseteq Documents
       /\ exports[p] \in 0 .. MaxExports
  /\ generated \subseteq Items /\ crashes \in 0 .. MaxCrashes
  /\ strays \in [Projects -> SUBSET Documents]

Nothing == [p \in Projects |-> <<>>]

Init ==
  /\ disk = [p \in Projects |-> "none"]
  /\ chats = Nothing /\ saved = Nothing /\ artifacts = Nothing /\ outputs = Nothing
  /\ documents = Nothing /\ texts = [p \in Projects |-> {}]
  /\ exports = [p \in Projects |-> 0]
  /\ generated = {} /\ crashes = 0
  /\ strays = [p \in Projects |-> {}]

\* project.json is there: list_projects, require_project.
Listed == {p \in Projects : disk[p] \in {"there", "halved"}}
Ids(seq) == {seq[i].id : i \in DOMAIN seq}
Newest(seq, n) == IF Len(seq) <= n THEN seq ELSE SubSeq(seq, Len(seq) - n + 1, Len(seq))
First(seq, n)  == SubSeq(seq, 1, IF Len(seq) < n THEN Len(seq) ELSE n)
-----------------------------------------------------------------------------
(* Projects.                                                               *)

Create(p) ==
  /\ disk[p] = "none" /\ Cardinality(Listed) < MaxProjects
  /\ disk' = [disk EXCEPT ![p] = "there"]
  /\ UNCHANGED <<contents, generated, history>>

\* The rows of its documents go first, then the directory.
Delete(p) ==
  /\ disk[p] # "none"
  /\ disk' = [disk EXCEPT ![p] = "gone"]
  /\ chats' = [chats EXCEPT ![p] = <<>>] /\ saved' = [saved EXCEPT ![p] = <<>>]
  /\ artifacts' = [artifacts EXCEPT ![p] = <<>>] /\ outputs' = [outputs EXCEPT ![p] = <<>>]
  /\ documents' = [documents EXCEPT ![p] = <<>>] /\ texts' = [texts EXCEPT ![p] = {}]
  /\ exports' = [exports EXCEPT ![p] = 0] /\ strays' = [strays EXCEPT ![p] = {}]
  /\ UNCHANGED <<generated, crashes>>

\* rmtree stops half way: any of the files may be left.
DeleteCutOff(p, left) ==
  /\ disk[p] = "there" /\ crashes < MaxCrashes
  /\ crashes' = crashes + 1
  /\ disk' = [disk EXCEPT ![p] = IF "project" \in left THEN "halved" ELSE "torn"]
  /\ chats' = IF "project" \in left THEN chats ELSE [chats EXCEPT ![p] = <<>>]
  /\ outputs' = IF "project" \in left THEN outputs ELSE [outputs EXCEPT ![p] = <<>>]
  /\ documents' = IF "project" \in left THEN documents ELSE [documents EXCEPT ![p] = <<>>]
  /\ saved' = IF "saved" \in left THEN saved ELSE [saved EXCEPT ![p] = <<>>]
  /\ artifacts' = IF "artifacts" \in left THEN artifacts ELSE [artifacts EXCEPT ![p] = <<>>]
  /\ texts' = [texts EXCEPT ![p] = {}] /\ strays' = [strays EXCEPT ![p] = {}]
  /\ UNCHANGED <<exports, generated>>

\* normalize_conversations: the last changed first.
Sorted(seq) ==
  LET before == {x \in (DOMAIN seq) \X (DOMAIN seq) :
                   \/ seq[x[1]].at > seq[x[2]].at
                   \/ seq[x[1]].at = seq[x[2]].at /\ x[1] < x[2]}
      order == InOrder(DOMAIN seq, before)
  IN  First([k \in DOMAIN seq |-> seq[order[k]]], MaxChats)

Upsert(p, c, at) ==
  /\ p \in Listed
  /\ chats' = [chats EXCEPT ![p] =
       Newest(Append(Among(Sorted(@), [id : Chats \ {c}, at : Times]), [id |-> c, at |-> at]), MaxChats)]
  /\ UNCHANGED <<disk, saved, artifacts, outputs, documents, texts, exports, generated, history>>
-----------------------------------------------------------------------------
(* Saved items and artifacts. Of their fields only the id is kept, so that *)
(* an edit of their words changes nothing here.                            *)

\* Ids are random: one that is in use is not drawn again.
InUse == generated \cup UNION {ToSet(saved[p]) \cup ToSet(outputs[p]) : p \in Projects}
                   \cup UNION {UNION {{x.id} \cup ToSet(x.files) : x \in ToSet(artifacts[p])} : p \in Projects}
New(i) == i \notin InUse

Save(p, i) ==
  /\ p \in Listed /\ Len(saved[p]) < MaxItems /\ New(i)
  /\ saved' = [saved EXCEPT ![p] = Newest(Append(@, i), MaxItems)]
  /\ UNCHANGED <<disk, chats, artifacts, outputs, documents, texts, exports, generated, strays, crashes>>

Unsave(p, i) ==
  /\ i \in ToSet(saved[p])
  /\ saved' = [saved EXCEPT ![p] = Among(@, Items \ {i})]
  /\ UNCHANGED <<disk, chats, artifacts, outputs, documents, texts, exports, generated, history>>

\* Files older than six hours are removed when another is written.
Written(i, expired) == (generated \ expired) \cup {i}

\* The lists of project.json keep the newest.
Produced(p, i) == First(<<i>> \o outputs[p], MaxRecent)

\* A tool writes a file, or a skill does for its project.
Generate(i, expired, ps) ==
  /\ New(i) /\ expired \subseteq generated /\ Cardinality(ps) <= 1
  /\ ps \subseteq Listed
  /\ generated' = Written(i, expired)
  /\ outputs' = [p \in Projects |-> IF p \in ps THEN Produced(p, i) ELSE outputs[p]]
  /\ UNCHANGED <<disk, chats, saved, artifacts, documents, texts, exports, strays, crashes>>

\* Mutant of Accepts: the artifact that no longer fits is accepted.
AcceptsOneMore(p) == p \in Listed /\ Len(artifacts[p]) <= MaxItems

\* Mutant of Accepts: whether there is still such a project is not looked up.
AcceptsGone(p) == disk[p] # "none" /\ Len(artifacts[p]) < MaxItems

\* register_artifact: of a project that exists and has room.
Accepts(p) == p \in Listed /\ Len(artifacts[p]) < MaxItems

\* _write_artifacts and _load_artifacts.
Stored(list) == Newest(list, MaxItems)

Register(p, i) ==
  /\ Accepts(p) /\ i \in generated /\ i \notin Ids(artifacts[p])
  /\ artifacts' = [artifacts EXCEPT ![p] = Stored(Append(@, [id |-> i, files |-> <<i>>]))]
  /\ UNCHANGED <<disk, chats, saved, outputs, documents, texts, exports, generated, history>>

\* The artifact is the file of its last version.
WithVersion(artifact, i) == [artifact EXCEPT !.files = Append(@, i)]

AddVersion(p, a, i) ==
  /\ a \in Ids(artifacts[p]) /\ i \in generated
  /\ artifacts' = [artifacts EXCEPT ![p] =
       [k \in DOMAIN @ |-> IF @[k].id = a /\ Len(@[k].files) < MaxVersions
                           THEN WithVersion(@[k], i) ELSE @[k]]]
  /\ UNCHANGED <<disk, chats, saved, outputs, documents, texts, exports, generated, history>>

Unregister(p, a) ==
  /\ a \in Ids(artifacts[p])
  /\ artifacts' = [artifacts EXCEPT ![p] = Among(@, [id : Items \ {a}, files : Seq(Items)])]
  /\ UNCHANGED <<disk, chats, saved, outputs, documents, texts, exports, generated, history>>
-----------------------------------------------------------------------------
(* Documents.                                                              *)

\* Checked before the first file is read.
Fits(p, batch) == Len(documents[p]) + Len(batch) <= MaxDocuments

\* Mutant of Others: a document that is uploaded again is listed again.
OthersAll(p, batch) == documents[p]

Others(p, batch) == Among(documents[p], Documents \ ToSet(batch))

\* add_project_files: each file is cached and indexed as it is read; the list is
\* written after the last one. readable: those before the first that is refused,
\* or before a crash.
Upload(p, batch, readable) ==
  /\ p \in Listed /\ Fits(p, batch) /\ readable \in 0 .. Len(batch)
  /\ texts' = [texts EXCEPT ![p] = @ \cup ToSet(SubSeq(batch, 1, readable))]
  /\ IF readable = Len(batch)
     THEN /\ documents' = [documents EXCEPT ![p] =
               Newest(Others(p, batch) \o batch, MaxDocuments)]
          /\ strays' = [strays EXCEPT ![p] = @ \ ToSet(batch)]
     ELSE /\ documents' = documents
          /\ strays' = [strays EXCEPT ![p] =
               @ \cup (ToSet(SubSeq(batch, 1, readable)) \ ToSet(documents[p]))]
  /\ UNCHANGED <<disk, chats, saved, artifacts, outputs, exports, generated, crashes>>
-----------------------------------------------------------------------------
(* Exports.                                                                *)

\* The files of the artifacts, and those that an archive holds.
Files(p)  == {Last(x.files) : x \in ToSet(artifacts[p])}
Packed(p) == Files(p) \cap generated

\* exports.json keeps the newest; the files stay.
Recorded(n) == IF n < MaxExports THEN n + 1 ELSE n

\* Only the export of a whole project looks whether there is one; the others
\* make the directory they write to.
Export(p, kind) ==
  /\ kind \in {"project", "items"} /\ disk[p] # "none"
  /\ kind = "project" => p \in Listed
  /\ exports' = [exports EXCEPT ![p] = Recorded(@)]
  /\ UNCHANGED <<disk, chats, saved, artifacts, outputs, documents, texts, generated, history>>

Batches == {b \in SeqOf(Documents, 2) : b # <<>> /\ IsInjective(b)}

Next ==
  \/ \E p \in Projects :
       \/ Create(p) \/ Delete(p)
       \/ \E left \in SUBSET {"project", "saved", "artifacts"} : DeleteCutOff(p, left)
       \/ \E c \in Chats, at \in Times : Upsert(p, c, at)
       \/ \E i \in Items : Save(p, i) \/ Unsave(p, i) \/ Register(p, i) \/ Unregister(p, i)
       \/ \E a, i \in Items : AddVersion(p, a, i)
       \/ \E batch \in Batches, readable \in 0 .. 2 : Upload(p, batch, readable)
       \/ \E kind \in {"project", "items"} : Export(p, kind)
  \/ \E i \in Items, expired \in SUBSET generated, ps \in SUBSET Projects : Generate(i, expired, ps)

Spec == Init /\ [][Next]_vars
-----------------------------------------------------------------------------
\* Nothing goes from a project on its own: an entry leaves its list by its own
\* removal, one at a time, or with the project; a list that is full takes
\* nothing more (the limits of saved_items.py, artifacts.py and
\* add_project_files), only a conversation makes room for another. And the
\* versions of an artifact only grow.
NothingVanishes ==
  [][contents' # contents => \A p \in Projects : disk'[p] = disk[p] =>
       /\ Cardinality(SymDiff(ToSet(saved[p]), ToSet(saved'[p]))) <= 1
       /\ Cardinality(SymDiff(Ids(artifacts[p]), Ids(artifacts'[p]))) <= 1
       /\ \A k \in DOMAIN artifacts[p], m \in DOMAIN artifacts'[p] :
            artifacts[p][k].id = artifacts'[p][m].id =>
              IsPrefix(artifacts[p][k].files, artifacts'[p][m].files)
       /\ ToSet(documents[p]) \subseteq ToSet(documents'[p])
       /\ Ids(chats[p]) \subseteq Ids(chats'[p]) \/ Len(chats[p]) = MaxChats]_vars

\* The files of a project agree. The library is what can be asked: a listed
\* document has its text, each once, and a text that is not listed was left by an
\* upload that failed later (add_project_files writes the list last). Nothing is
\* put into a project that was deleted, and it does not come back: its directory
\* may, for an export (require_project before each write).
DirectoriesAgree ==
  \A p \in Projects :
    /\ disk[p] = "there" =>
         /\ IsInjective(documents[p]) /\ ToSet(documents[p]) \subseteq texts[p]
         /\ texts[p] \ ToSet(documents[p]) = strays[p]
    /\ disk[p] \in {"none", "gone"} =>
         /\ saved[p] = <<>> /\ artifacts[p] = <<>> /\ documents[p] = <<>>
         /\ texts[p] = {} /\ chats[p] = <<>> /\ outputs[p] = <<>>

\* What docs/WORKSPACE.md says: an archive holds the files of the artifacts.
ZipHoldsArtifacts == \A p \in Projects : disk[p] = "there" => Packed(p) = Files(p)
=============================================================================

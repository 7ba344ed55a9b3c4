------------------------------ MODULE Workbench ------------------------------
(***************************************************************************)
(* Six machines that surround a conversation, one of them in each          *)
(* behaviour: the skills, their packs in a project, the chunks of a file,  *)
(* the text and the pages of a file, the prompt of an answer, and the      *)
(* projects.                                                               *)
(***************************************************************************)
EXTENDS Skills, ChunkSizes, Integers, Sequences

CONSTANTS PackCustom, PackBuiltins, Packs, Manifests, MaxEnabled, MaxImports, MaxBroken,
          N, Length, Recognisers,
          TriggerMessages, TriggerSize, KeepRecent, MinDelta, MinDeltaSize, FallbackSize,
          HardLimit, WindowMessages, MinKeep, Available, Settings, MaxMessages, MaxOdd,
          Projects, Items, Documents, Chats, MaxProjects, MaxItems, MaxDocuments,
          MaxChats, MaxRecent, MaxExports, Times, MaxVersions, MaxCrashes

ASSUME PacksAssumption ==
  /\ Manifests \subseteq Seq(PackCustom \cup PackBuiltins)
  /\ MaxEnabled \in Nat

\* The limits of the lists of a project; times can be compared.
ASSUME WorkspaceAssumption ==
  /\ MaxItems \in Nat /\ MaxDocuments \in Nat /\ MaxChats \in Nat /\ MaxRecent \in Nat
  /\ Times \subseteq Int

\* The browser keeps and the server sends something (chat.js 200-207; the
\* bounds of the environment in config.py); a turn names a model or leaves it open.
ASSUME PromptAssumption ==
  /\ KeepRecent \in Nat \ {0} /\ MinKeep \in Nat \ {0} /\ WindowMessages \in Nat
  /\ TriggerMessages \in Nat /\ MinDelta \in Nat /\ HardLimit \in Nat
  /\ \A s \in Settings : s.model \in {"auto", "flash", "pro"}

\* A file has pages; a page that has text has at least one letter.
ASSUME TextAssumption ==
  /\ N \in Nat \ {0} /\ Length \in [1 .. N -> Nat \ {0}]
  /\ Recognisers \subseteq {"deepseek-api", "android-mlkit", "formula-command", "tesseract", "windows-ocr"}

VARIABLES
  which,
  skill, pack, revisions, enabled, enabledPacks, default, imports, broken, \* SkillPacks
  length, breaks, chunks, start, done, cutting, budget, chosen, used, pending, window, \* FileChunks
  kind, content, ocr, engines, reading, at, turn, best, sawEmpty, out, pageTexts,
  verdict, view, read, \* FileText
  messages, covered, request, stage, failed, notice, body, before, \* PromptContext
  disk, chats, saved, artifacts, outputs, documents, texts, exports, generated,
  strays, cutOff \* Workspace

packs   == <<skill, pack, revisions, enabled, enabledPacks, default, imports, broken>>
pieces  == <<length, breaks, chunks, start, done, cutting, budget, chosen, used, pending, window>>
scans   == <<kind, content, ocr, engines, reading, at, turn, best, sawEmpty, out, pageTexts,
             verdict, view, read>>
prompts == <<messages, covered, request, stage, failed, notice, body, before>>
spaces  == <<disk, chats, saved, artifacts, outputs, documents, texts, exports, generated,
             strays, cutOff>>
all == <<which, vars, packs, pieces, scans, prompts, spaces>>

P == INSTANCE SkillPacks WITH Custom <- PackCustom, Builtins <- PackBuiltins
C == INSTANCE FileChunks WITH stage <- cutting
T == INSTANCE FileText WITH enabled <- ocr, stage <- reading
R == INSTANCE PromptContext WITH told <- notice
W == INSTANCE Workspace WITH crashes <- cutOff

\* The machine of a behaviour is chosen at the start; the others rest.
MCInit ==
  /\ which \in {"skills", "packs", "chunks", "text", "prompt", "workspace"}
  /\ IF which = "chunks" THEN TRUE ELSE length = 1 /\ breaks = {}
  /\ IF which = "text" THEN TRUE
     ELSE kind = "text" /\ content = [p \in 1 .. N |-> "text"] /\ ocr = FALSE /\ engines = <<>>
  /\ Init /\ P!Init /\ C!Init /\ T!Init /\ R!Init /\ W!Init

MCNext ==
  \/ which = "skills" /\ Next /\ UNCHANGED <<which, packs, pieces, scans, prompts, spaces>>
  \/ which = "packs" /\ P!Next /\ UNCHANGED <<which, vars, pieces, scans, prompts, spaces>>
  \/ which = "chunks" /\ C!Next /\ UNCHANGED <<which, vars, packs, scans, prompts, spaces>>
  \/ which = "text" /\ T!Next /\ UNCHANGED <<which, vars, packs, pieces, prompts, spaces>>
  \/ which = "prompt" /\ R!Next /\ UNCHANGED <<which, vars, packs, pieces, scans, spaces>>
  \/ which = "workspace" /\ W!Next /\ UNCHANGED <<which, vars, packs, pieces, scans, prompts>>

MCSpec == MCInit /\ [][MCNext]_all

UninstallSpares      == P!UninstallSpares
PassagesAreWhole     == C!PassagesAreWhole
NoPageIsLost         == T!NoPageIsLost
NothingForgotten     == R!NothingForgotten
PromptIsWhole        == R!PromptIsWhole
PrefixKept           == R!PrefixKept
NothingVanishes      == W!NothingVanishes
DirectoriesAgree     == W!DirectoriesAgree
==============================================================================

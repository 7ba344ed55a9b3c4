----------------------------- MODULE SkillPacks -----------------------------
(***************************************************************************)
(* Skill packs, the local catalogue and what a project has enabled         *)
(* (infra/skills/registry.py, versioning.py and catalog.py,                *)
(* infra/data/projects.py). A pack is stored as the list of the skills it  *)
(* brings; the skills are files of their own, so they can be deleted, or   *)
(* made unreadable by a crash, under every pack that lists them. Every     *)
(* handler is one step of the event loop.                                  *)
(***************************************************************************)
EXTENDS Naturals, Sequences, SequencesExt, Lists

CONSTANTS Custom, Builtins, \* ids of skills; the built-in ones are read-only
          Packs,            \* ids of packs
          Manifests,        \* the lists of skills a pack may bring
          MaxEnabled,       \* skills a project keeps (40 in the code)
          MaxImports, MaxBroken

Skills == Custom \cup Builtins
NoPack == <<>>
NoSkill == ""

VARIABLES
  skill,      \* "absent", "readable" or "torn", per skill
  pack,       \* .skills/packs/<id>.json: the skills it lists in order, or NoPack
  revisions,  \* .skills/history/packs/<id>/
  enabled,    \* the project's enabledSkills, enabledPacks and defaultSkill
  enabledPacks, default,
  imports, broken

binding == <<enabled, enabledPacks, default>>
vars == <<skill, pack, revisions, binding, imports, broken>>

TypeOK ==
  /\ skill \in [Skills -> {"absent", "readable", "torn"}]
  /\ pack \in [Packs -> Manifests \cup {NoPack}]
  /\ revisions \in [Packs -> SUBSET Manifests]
  /\ enabled \in Seq(Skills) /\ Len(enabled) <= MaxEnabled
  /\ enabledPacks \subseteq Packs /\ default \in Skills \cup {NoSkill}
  /\ imports \in 0 .. MaxImports /\ broken \in 0 .. MaxBroken

Found(s)  == skill[s] = "readable"
Exists(p) == pack[p] # NoPack

Exportable(p) == \A s \in ToSet(pack[p]) : Found(s)

\* Mutant of CatalogWorks: the list leaves a pack out that it cannot export.
CatalogTolerates == TRUE

\* The list of the catalogue exports every pack, and fails with the first it
\* cannot export.
CatalogWorks == \A p \in Packs : Exists(p) => Exportable(p)

Init ==
  /\ skill = [s \in Skills |-> IF s \in Builtins THEN "readable" ELSE "absent"]
  /\ pack = [p \in Packs |-> NoPack] /\ revisions = [p \in Packs |-> {}]
  /\ enabled = <<>> /\ enabledPacks = {} /\ default = NoSkill
  /\ imports = 0 /\ broken = 0
-----------------------------------------------------------------------------
(* The registry.                                                           *)

CreateSkill(s, overwrite) ==
  /\ skill[s] = "absent" \/ overwrite
  /\ skill' = [skill EXCEPT ![s] = "readable"]
  /\ UNCHANGED <<pack, revisions, binding, imports, broken>>

\* Neither the packs nor the projects that name the skill are looked at.
DeleteSkill(s) ==
  /\ skill[s] # "absent"
  /\ skill' = [skill EXCEPT ![s] = "absent"]
  /\ UNCHANGED <<pack, revisions, binding, imports, broken>>

\* A crash while the file of a skill is written.
BreakSkill(s) ==
  /\ broken < MaxBroken /\ broken' = broken + 1
  /\ skill' = [skill EXCEPT ![s] = "torn"]
  /\ UNCHANGED <<pack, revisions, binding, imports>>

Policies == {"error", "overwrite", "skip"}

\* An embedded skill that is there already is a conflict, replaced only when
\* the caller says so; a built-in one may never be, and one whose file cannot
\* be read is no conflict and may not be replaced either.
Written(s, policy) == policy = "overwrite" \/ ~Found(s)
Stuck(s, policy) ==
  /\ Written(s, policy)
  /\ s \in Builtins \/ (policy # "overwrite" /\ skill[s] # "absent")

Install(S) == skill' = [s \in Skills |-> IF s \in S THEN "readable" ELSE skill[s]]

\* The embedded skills are written one by one, before the manifest. The first
\* that may not be ends the import, and those before it stay. A reference to a
\* skill that is not there is reported and kept.
ImportPack(p, m, embedded, policy) ==
  /\ imports < MaxImports /\ imports' = imports + 1
  /\ policy = "error" => \A s \in embedded : ~Found(s)
  /\ LET stuck == {i \in DOMAIN m : m[i] \in embedded /\ Stuck(m[i], policy)}
         reached == {i \in DOMAIN m : \A j \in stuck : i < j}
     IN  /\ Install({m[i] : i \in reached} \cap {s \in embedded : Written(s, policy)})
         /\ pack' = IF stuck = {} THEN [pack EXCEPT ![p] = m] ELSE pack
         /\ revisions' = IF stuck = {} THEN [revisions EXCEPT ![p] = @ \cup {m}] ELSE revisions
  /\ UNCHANGED <<binding, broken>>

\* A crash while the manifest is written, by an import, a rollback or an
\* upgrade: a file that cannot be parsed is left out of every list. What the
\* import wrote before is what as many CreateSkill steps write.
BreakPack(p) ==
  /\ broken < MaxBroken /\ broken' = broken + 1
  /\ pack' = [pack EXCEPT ![p] = NoPack]
  /\ UNCHANGED <<skill, revisions, binding, imports>>

\* The project keeps the pack it enabled.
DeletePack(p) ==
  /\ Exists(p)
  /\ pack' = [pack EXCEPT ![p] = NoPack]
  /\ UNCHANGED <<skill, revisions, binding, imports, broken>>
-----------------------------------------------------------------------------
(* The binding of the project.                                             *)

Cut(seq) == SubSeq(seq, 1, IF Len(seq) < MaxEnabled THEN Len(seq) ELSE MaxEnabled)

\* set_project_skill_binding: a default that is not enabled is put first, and
\* what is beyond the limit is dropped; a default that was dropped is read back
\* as none.
Bind(skills, packs, def) ==
  LET listed == IF def \in Skills /\ def \notin ToSet(skills) THEN <<def>> \o skills ELSE skills
  IN  /\ enabled' = Cut(listed)
      /\ enabledPacks' = packs
      /\ default' = IF def \in ToSet(enabled') THEN def ELSE NoSkill

Without(list, S) == Among(list, Skills \ S)

\* enable_pack_for_project: the skills of the pack that can be found come after
\* the others, and the first of them becomes the default if there is none.
EnablePack(p, m) ==
  LET found == Among(m, {s \in Skills : Found(s)})
  IN  Bind(enabled \o Without(found, ToSet(enabled)), enabledPacks \cup {p},
           IF default = NoSkill /\ found # <<>> THEN Head(found) ELSE default)

\* The user edits the binding in the settings of the project.
SetBinding(list, packs, def) ==
  /\ Bind(list, packs, def)
  /\ UNCHANGED <<skill, pack, revisions, imports, broken>>

\* The route of the workspace installs a pack without a review.
InstallPack(p) ==
  /\ Exists(p) /\ EnablePack(p, pack[p])
  /\ UNCHANGED <<skill, pack, revisions, imports, broken>>

\* rollback_pack and upgrade_pack, for a project or for none.
RestorePack(p, m, project) ==
  /\ Exists(p) /\ m \in revisions[p]
  /\ pack' = [pack EXCEPT ![p] = m]
  /\ IF project THEN EnablePack(p, m) ELSE UNCHANGED binding
  /\ UNCHANGED <<skill, revisions, imports, broken>>

\* A skill that ran in the project is enabled first of all (touch_project_skill).
SkillRan(s) ==
  /\ Found(s)
  /\ LET list == IF s \in ToSet(enabled) THEN enabled ELSE Cut(<<s>> \o enabled)
     IN  /\ enabled' = list
         /\ default' = CASE default = NoSkill -> s
                         [] default \in ToSet(list) -> default
                         [] OTHER -> NoSkill
  /\ UNCHANGED <<enabledPacks, skill, pack, revisions, imports, broken>>
-----------------------------------------------------------------------------
(* The catalogue. Every operation begins with catalog_get, which lists it. *)

CatalogInstallSkill(s) ==
  /\ CatalogWorks /\ Found(s)
  /\ Bind(enabled \o Without(<<s>>, ToSet(enabled)), enabledPacks,
          IF default = NoSkill THEN s ELSE default)
  /\ UNCHANGED <<skill, pack, revisions, imports, broken>>

CatalogInstallPack(p) ==
  /\ CatalogWorks /\ Exists(p) /\ EnablePack(p, pack[p])
  /\ UNCHANGED <<skill, pack, revisions, imports, broken>>

FirstOf(list) == IF list = <<>> THEN NoSkill ELSE Head(list)

CatalogUninstallSkill(s) ==
  /\ CatalogWorks /\ Found(s)
  /\ LET rest == Without(enabled, {s})
     IN  Bind(rest, enabledPacks, IF default = s THEN FirstOf(rest) ELSE default)
  /\ UNCHANGED <<skill, pack, revisions, imports, broken>>

\* What the pack lists now goes, except what another enabled pack brings; a
\* pack that cannot be exported brings nothing.
CatalogUninstallPack(p) ==
  /\ CatalogWorks /\ Exists(p)
  /\ LET others == enabledPacks \ {p}
         spared == UNION {ToSet(pack[q]) : q \in {q \in others : Exportable(q)}}
         rest   == Without(enabled, ToSet(pack[p]) \ spared)
     IN  Bind(rest, others, IF default \in ToSet(rest) THEN default ELSE FirstOf(rest))
  /\ UNCHANGED <<skill, pack, revisions, imports, broken>>
-----------------------------------------------------------------------------
Next ==
  \/ \E s \in Custom :
       DeleteSkill(s) \/ BreakSkill(s) \/ \E overwrite \in BOOLEAN : CreateSkill(s, overwrite)
  \/ \E s \in Skills : SkillRan(s) \/ CatalogInstallSkill(s) \/ CatalogUninstallSkill(s)
  \/ \E p \in Packs :
       \/ DeletePack(p) \/ BreakPack(p)
       \/ InstallPack(p) \/ CatalogInstallPack(p) \/ CatalogUninstallPack(p)
       \/ \E m \in Manifests :
            \/ \E embedded \in SUBSET ToSet(m), policy \in Policies : ImportPack(p, m, embedded, policy)
            \/ \E project \in BOOLEAN : RestorePack(p, m, project)
  \/ \E list \in Manifests \cup {<<>>}, packs \in SUBSET Packs, def \in Skills \cup {NoSkill} :
       SetBinding(list, packs, def)

Spec == Init /\ [][Next]_vars
-----------------------------------------------------------------------------
(***************************************************************************)
(* Uninstalling a pack takes no skill that another enabled pack brings,    *)
(* as long as that pack is there. _uninstall_pack looks away from packs it *)
(* cannot export; that no such pack is there by then is due to the list of *)
(* the catalogue, which fails before.                                      *)
(***************************************************************************)
UninstallSpares ==
  [][\A q \in enabledPacks' :
       \/ ToSet(pack[q]) \cap ToSet(enabled) \subseteq ToSet(enabled')
       \/ \A p \in Packs : ~CatalogUninstallPack(p)]_vars
=============================================================================

------------------------------- MODULE Skills -------------------------------
(***************************************************************************)
(* The skills of the workbench: the registry of custom skills in JSON      *)
(* files, their revision history, the trust store and the runner           *)
(* (infra/skills/registry.py, versioning.py, security.py and runner.py).   *)
(* Every handler is one step of the event loop, so what comes between two  *)
(* of its writes is only seen after a crash: an operation that saves a     *)
(* skill may stop with the file cut off, or written and without its        *)
(* revision; one that saves a list may stop with the list cut off, and a   *)
(* list that cannot be read is taken for an empty one.                     *)
(***************************************************************************)
EXTENDS Naturals

CONSTANTS Custom,      \* ids of custom skills
          Builtins,    \* ids of the skills that come with the program
          Bodies,      \* what a skill says and may call: its manifest
          Risky,       \* the bodies whose review alone makes them high-risk
          MaxSkillCrashes

ASSUME SkillsAssumption ==
  /\ Custom \cap Builtins = {} /\ Bodies \cap Builtins = {}
  /\ Risky \subseteq Bodies
  /\ MaxSkillCrashes \in Nat

Skills == Custom \cup Builtins

VARIABLES
  file,       \* .skills/custom/<id>.json: the body and the "disabled" key; a
              \* built-in skill is its own body and never written
  history,    \* .skills/history/<id>/: the bodies a revision was kept of
  disabled,   \* disabled.json
  trust,      \* security/trust-store.json: status and body, per skill
  run,        \* the run of a skill that the last step was, if it was one
  crashes,
  cut,        \* custom skills whose last save was cut short by a crash
  switched,   \* skills that were disabled by hand and not enabled since
  told        \* what the user last told the trust store of each skill

vars == <<file, history, disabled, trust, run, crashes, cut, switched, told>>

Absent == [kind |-> "absent"]
Torn   == [kind |-> "torn"]
Stored(b, off) == [kind |-> "skill", body |-> b, off |-> off]

Files  == {Absent, Torn} \cup {Stored(b, off) : b \in Bodies \cup Builtins, off \in BOOLEAN}

NoEntry == [status |-> "none"]
Entry(status, b) == [status |-> status, body |-> b]
Entries == {NoEntry} \cup {Entry(s, b) : s \in {"trusted", "blocked"}, b \in Bodies \cup Builtins}

NoRun == [outcome |-> "none"]
Outcomes == {"security_review_blocked", "schema_validation_failed",
             "project_binding_failed", "failed", "completed"}

TypeOK ==
  /\ file \in [Skills -> Files]
  /\ history \in [Custom -> SUBSET (Bodies \cup Builtins)]
  /\ disabled \in SUBSET Skills /\ switched \in SUBSET Skills
  /\ trust \in [Skills -> Entries] /\ told \in [Skills -> Entries]
  /\ cut \in SUBSET Custom /\ crashes \in 0 .. MaxSkillCrashes

\* A file that cannot be parsed is left out of the list: the skill is not found.
Readable(s) == file[s].kind = "skill"
IsOff(s) == s \in disabled \/ file[s].off

Init ==
  /\ file = [s \in Skills |-> IF s \in Builtins THEN Stored(s, FALSE) ELSE Absent]
  /\ history = [s \in Custom |-> {}]
  /\ disabled = {} /\ trust = [s \in Skills |-> NoEntry]
  /\ run = NoRun /\ crashes = 0
  /\ cut = {} /\ switched = {} /\ told = [s \in Skills |-> NoEntry]
-----------------------------------------------------------------------------
(* The registry.                                                           *)

\* Mutant of Save: the skill is written without a revision.
SaveUnversioned(s, b, off) ==
  /\ file' = [file EXCEPT ![s] = Stored(b, off)]
  /\ cut' = cut \ {s} /\ UNCHANGED <<history, crashes>>

\* write_custom_skill and snapshot_skill, or a crash on the way.
Save(s, b, off) ==
  \/ /\ file' = [file EXCEPT ![s] = Stored(b, off)]
     /\ history' = [history EXCEPT ![s] = @ \cup {b}]
     /\ cut' = cut \ {s} /\ UNCHANGED crashes
  \/ /\ crashes < MaxSkillCrashes /\ crashes' = crashes + 1
     /\ \E left \in {Torn, Stored(b, off)} : file' = [file EXCEPT ![s] = left]
     /\ cut' = cut \cup {s} /\ UNCHANGED history

\* An import may carry a "disabled" key; an existing file, readable or not,
\* is only replaced when the caller says so.
Create(s, b, off, overwrite) ==
  /\ file[s] = Absent \/ overwrite
  /\ Save(s, b, off)
  /\ run' = NoRun /\ UNCHANGED <<disabled, trust, switched, told>>

Update(s, b, off) ==
  /\ Readable(s)
  /\ Save(s, b, off)
  /\ run' = NoRun /\ UNCHANGED <<disabled, trust, switched, told>>

\* The revisions and the entry in the trust store outlive the skill.
Delete(s) ==
  /\ file[s] # Absent
  /\ file' = [file EXCEPT ![s] = Absent]
  /\ disabled' = disabled \ {s} /\ switched' = switched \ {s}
  /\ cut' = cut \ {s}
  /\ run' = NoRun /\ UNCHANGED <<history, trust, crashes, told>>

\* Deleting a built-in skill disables it.
Disable(s) ==
  /\ Readable(s)
  /\ disabled' = disabled \cup {s} /\ switched' = switched \cup {s}
  /\ run' = NoRun /\ UNCHANGED <<file, history, trust, crashes, cut, told>>

\* The "disabled" key of the file is left as it is.
Enable(s) ==
  /\ Readable(s)
  /\ disabled' = disabled \ {s} /\ switched' = switched \ {s}
  /\ run' = NoRun /\ UNCHANGED <<file, history, trust, crashes, cut, told>>

\* A revision is made of the current body first; a crash while it is written
\* leaves a file of its own that no list shows. The revision that comes back
\* never carries the "disabled" key.
Rollback(s, b) ==
  /\ b \in history[s] /\ Readable(s)
  /\ LET checkpoint == [history EXCEPT ![s] = @ \cup {file[s].body}]
     IN  \/ /\ file' = [file EXCEPT ![s] = Stored(b, FALSE)]
            /\ history' = checkpoint /\ cut' = cut \ {s} /\ UNCHANGED crashes
         \/ /\ crashes < MaxSkillCrashes /\ crashes' = crashes + 1
            /\ \E left \in {file[s], Torn, Stored(b, FALSE)} : file' = [file EXCEPT ![s] = left]
            /\ history' = checkpoint /\ cut' = cut \ {s}
         \/ /\ crashes < MaxSkillCrashes /\ crashes' = crashes + 1
            /\ UNCHANGED <<file, history, cut>>
  /\ run' = NoRun /\ UNCHANGED <<disabled, trust, switched, told>>

\* A crash while disabled.json is rewritten for any skill: what it held of
\* every skill is gone.
LoseDisabled ==
  /\ crashes < MaxSkillCrashes /\ crashes' = crashes + 1
  /\ disabled' = {} /\ switched' = {}
  /\ run' = NoRun /\ UNCHANGED <<file, history, trust, cut, told>>
-----------------------------------------------------------------------------
(* The security review and the trust store.                                *)

\* What the scan of the prompt and the tools says of a body by itself.
Suspicious(b) == b \in Risky

Tampered(s) == trust[s].status = "trusted" /\ trust[s].body # file[s].body

\* Mutant of ReviewStatus: what was trusted once stays trusted.
ReviewStatusById(s) ==
  IF trust[s].status = "blocked" THEN "blocked"
  ELSE IF trust[s].status = "trusted" \/ s \in Builtins THEN "trusted"
  ELSE IF Suspicious(file[s].body) THEN "high-risk" ELSE "local-custom"

ReviewStatus(s) ==
  IF trust[s].status = "blocked" THEN "blocked"
  ELSE IF Tampered(s) THEN "high-risk"
  ELSE IF trust[s].status = "trusted" \/ s \in Builtins THEN "trusted"
  ELSE IF Suspicious(file[s].body) THEN "high-risk" ELSE "local-custom"

\* trust_skill and block_skill keep the manifest that was reviewed.
Tell(s, status) ==
  /\ Readable(s)
  /\ trust' = [trust EXCEPT ![s] = Entry(status, file[s].body)]
  /\ told' = [told EXCEPT ![s] = Entry(status, file[s].body)]
  /\ run' = NoRun /\ UNCHANGED <<file, history, disabled, crashes, cut, switched>>

Untrust(s) ==
  /\ trust' = [trust EXCEPT ![s] = NoEntry]
  /\ told' = [told EXCEPT ![s] = NoEntry]
  /\ run' = NoRun /\ UNCHANGED <<file, history, disabled, crashes, cut, switched>>

LoseTrust ==
  /\ crashes < MaxSkillCrashes /\ crashes' = crashes + 1
  /\ trust' = [s \in Skills |-> NoEntry] /\ told' = [s \in Skills |-> NoEntry]
  /\ run' = NoRun /\ UNCHANGED <<file, history, disabled, cut, switched>>
-----------------------------------------------------------------------------
(* The runner. A run that passes the review may fail on its input, on its  *)
(* project, or later.                                                      *)

Refused(s, approved) ==
  \/ ReviewStatus(s) = "blocked"
  \/ ReviewStatus(s) = "high-risk" /\ ~approved

RunSkill(s, approved) ==
  /\ Readable(s) /\ ~IsOff(s)
  /\ \E how \in Outcomes :
       /\ how = "security_review_blocked" <=> Refused(s, approved)
       /\ run' = [outcome |-> how, skill |-> s, body |-> file[s].body, approved |-> approved]
  /\ UNCHANGED <<file, history, disabled, trust, crashes, cut, switched, told>>
-----------------------------------------------------------------------------
Next ==
  \/ \E s \in Custom, b \in Bodies, off \in BOOLEAN :
       \/ \E overwrite \in BOOLEAN : Create(s, b, off, overwrite)
       \/ Update(s, b, off)
  \/ \E s \in Custom : Delete(s) \/ \E b \in Bodies : Rollback(s, b)
  \/ \E s \in Skills :
       \/ Disable(s) \/ Enable(s) \/ Untrust(s)
       \/ \E status \in {"trusted", "blocked"} : Tell(s, status)
       \/ \E approved \in BOOLEAN : RunSkill(s, approved)
  \/ LoseDisabled \/ LoseTrust

(***************************************************************************)
(* A skill only runs (is sent to the model with its tools) when it is not  *)
(* disabled and the user has not blocked it since they last said anything  *)
(* about it; and content that is high-risk, or that differs from what they *)
(* trusted, only with their approval of this run. This holds through       *)
(* updates, deletions, imports under the same id and rollbacks, none of    *)
(* which touch the trust store; a crash that loses a list loses what it    *)
(* said (told and switched forget it with it).                             *)
(***************************************************************************)
RunsAreSanctioned ==
  run.outcome \notin {"none", "security_review_blocked"} =>
    LET s == run.skill IN
      /\ s \notin switched /\ told[s].status # "blocked"
      /\ \/ run.approved
         \/ told[s] = Entry("trusted", run.body)
         \/ told[s] = NoEntry /\ ~Suspicious(run.body)

(***************************************************************************)
(* Content is never lost: what a readable file said before it was changed  *)
(* or deleted is kept as a revision, unless the save that wrote it was cut *)
(* short by a crash.                                                       *)
(***************************************************************************)
ContentIsKept ==
  [][\A s \in Custom :
       Readable(s) /\ file'[s] # file[s] => file[s].body \in history'[s] \/ s \in cut]_vars

Spec == Init /\ [][Next]_vars
=============================================================================

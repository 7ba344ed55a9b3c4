--------------------------- MODULE WorkbenchProofs ---------------------------
(***************************************************************************)
(* Safety of what surrounds a conversation: each machine by itself, from   *)
(* its own Init and Next, for every value of its constants.                *)
(***************************************************************************)
EXTENDS Workbench, ListsProofs

(***************************************************************************)
(* The skills. What the runner looks at is what the user last              *)
(* said (Obeyed): no operation on a skill writes the trust store, and none *)
(* but Enable and Delete takes a skill off the disabled list. A content    *)
(* that a later change will replace has its revision already (Kept), since *)
(* a save keeps the content it writes and not the one it replaces.         *)
(***************************************************************************)
Obeyed == told = trust /\ switched = disabled

BuiltinsFixed == \A s \in Builtins : file[s] = Stored(s, FALSE)

Kept == \A s \in Custom : Readable(s) => file[s].body \in history[s] \/ s \in cut

SkillsInv == TypeOK /\ Obeyed /\ BuiltinsFixed /\ Kept /\ RunsAreSanctioned

-----------------------------------------------------------------------------
LEMMA StoredFields ==
  ASSUME NEW b, NEW off
  PROVE  /\ Stored(b, off).kind = "skill" /\ Stored(b, off).body = b
         /\ Stored(b, off).off = off
         /\ Absent.kind # "skill" /\ Torn.kind # "skill"
  BY DEF Stored, Absent, Torn

LEMMA StoredInFiles ==
  ASSUME NEW b \in Bodies \cup Builtins, NEW off \in BOOLEAN
  PROVE  Stored(b, off) \in Files
  BY DEF Files

\* The two facts of a skill whose file has no "disabled" key.
LEMMA StoredOn ==
  ASSUME NEW b
  PROVE  /\ Stored(b, FALSE).body = b
         /\ b \in Bodies \cup Builtins => Stored(b, FALSE) \in Files
<1>1. Stored(b, FALSE).body = b
  BY StoredFields, Zenon
<1>2. FALSE \in BOOLEAN
  OBVIOUS
<1>3. b \in Bodies \cup Builtins => Stored(b, FALSE) \in Files
  BY <1>2, StoredInFiles, Zenon
<1> QED BY <1>1, <1>3, Zenon

LEMMA EntryFields ==
  ASSUME NEW st, NEW b
  PROVE  /\ Entry(st, b).status = st /\ Entry(st, b).body = b
         /\ NoEntry.status = "none"
  BY DEF Entry, NoEntry

\* A skill that can be read has a body that was validated when it was saved.
LEMMA ReadableBody ==
  ASSUME TypeOK, NEW s \in Skills, Readable(s)
  PROVE  /\ file[s].body \in Bodies \cup Builtins
         /\ file[s].off \in BOOLEAN
         /\ file[s] = Stored(file[s].body, file[s].off)
<1>1. file[s] \in Files
  BY DEF TypeOK
<1>2. PICK b \in Bodies \cup Builtins, off \in BOOLEAN : file[s] = Stored(b, off)
  BY <1>1, StoredFields DEF Files, Readable
<1> QED BY <1>2, StoredFields

\* What a save, cut short or not, does to one custom skill.
LEMMA SaveKeeps ==
  ASSUME SkillsInv, NEW s \in Custom, NEW b \in Bodies, NEW off \in BOOLEAN, Save(s, b, off)
  PROVE  /\ file' \in [Skills -> Files] /\ BuiltinsFixed'
         /\ history' \in [Custom -> SUBSET (Bodies \cup Builtins)]
         /\ cut' \in SUBSET Custom /\ crashes' \in 0 .. MaxSkillCrashes
         /\ Kept'
<1> USE SkillsAssumption DEF SkillsInv
<1>1. PICK left \in {Torn, Stored(b, off)} : file' = [file EXCEPT ![s] = left]
  BY DEF Save
<1>2. /\ left \in Files /\ s \in Skills /\ s \notin Builtins
      /\ (left.kind = "skill" => left.body = b)
  BY StoredFields DEF Files, Skills
<1>3. file' \in [Skills -> Files] /\ BuiltinsFixed'
  BY <1>1, <1>2 DEF TypeOK, BuiltinsFixed, Skills
<1>4. CASE /\ history' = [history EXCEPT ![s] = @ \cup {b}]
           /\ cut' = cut \ {s} /\ UNCHANGED crashes
  <2>1. \A t \in Custom : history'[t] = IF t = s THEN history[t] \cup {b} ELSE history[t]
    BY <1>4 DEF TypeOK
  <2>2. Kept'
    BY <1>1, <1>2, <1>4, <2>1 DEF Kept, Readable, TypeOK, Skills
  <2> QED BY <1>3, <1>4, <2>2 DEF TypeOK
<1>5. CASE /\ crashes < MaxSkillCrashes /\ crashes' = crashes + 1
           /\ cut' = cut \cup {s} /\ UNCHANGED history
  <2>1. Kept'
    BY <1>1, <1>5 DEF Kept, Readable, TypeOK, Skills
  <2> QED BY <1>3, <1>5, <2>1 DEF TypeOK
<1> QED BY <1>4, <1>5 DEF Save

LEMMA SkillTypeStep ==
  ASSUME SkillsInv, Next
  PROVE  TypeOK' /\ BuiltinsFixed' /\ Kept' /\ Obeyed'
<1> USE SkillsAssumption
<1>1. ASSUME NEW s \in Custom, NEW b \in Bodies, NEW off \in BOOLEAN,
             Update(s, b, off) \/ \E overwrite \in BOOLEAN : Create(s, b, off, overwrite)
      PROVE  TypeOK' /\ BuiltinsFixed' /\ Kept' /\ Obeyed'
  <2>1. Save(s, b, off) /\ UNCHANGED <<disabled, trust, switched, told>>
    BY <1>1 DEF Create, Update
  <2> QED BY <2>1, SaveKeeps DEF SkillsInv, TypeOK, Obeyed
<1>2. ASSUME NEW s \in Custom, Delete(s)
      PROVE  TypeOK' /\ BuiltinsFixed' /\ Kept' /\ Obeyed'
  <2>0. Absent \in Files /\ s \notin Builtins
    BY DEF Files
  <2>1. file' \in [Skills -> Files] /\ BuiltinsFixed'
    BY <1>2, <2>0 DEF SkillsInv, TypeOK, Delete, BuiltinsFixed, Skills
  <2>2. Kept'
    BY <1>2, StoredFields DEF SkillsInv, TypeOK, Delete, Kept, Readable, Skills
  <2> QED BY <1>2, <2>1, <2>2 DEF SkillsInv, TypeOK, Delete, Obeyed
<1>3. ASSUME NEW s \in Custom, NEW b \in Bodies, Rollback(s, b)
      PROVE  TypeOK' /\ BuiltinsFixed' /\ Kept' /\ Obeyed'
  <2>1. crashes' = crashes \/ (crashes < MaxSkillCrashes /\ crashes' = crashes + 1)
    BY <1>3 DEF Rollback
  <2>2. crashes' \in 0 .. MaxSkillCrashes
    BY <2>1 DEF SkillsInv, TypeOK
  <2>3. CASE UNCHANGED <<file, history, cut>>
    <3>1. UNCHANGED <<disabled, trust, switched, told>> /\ run' = NoRun
      BY <1>3 DEF Rollback
    <3> QED BY <2>3, <2>2, <3>1 DEF SkillsInv, TypeOK, BuiltinsFixed, Kept, Obeyed, Readable
  <2> SUFFICES ASSUME ~UNCHANGED <<file, history, cut>>
               PROVE  TypeOK' /\ BuiltinsFixed' /\ Kept' /\ Obeyed'
    BY <2>3
  <2>4. PICK left \in {file[s], Torn, Stored(b, FALSE)} : file' = [file EXCEPT ![s] = left]
    BY <1>3 DEF Rollback, SkillsInv, TypeOK, Skills
  <2>5. /\ s \in Skills /\ s \notin Builtins /\ Readable(s) /\ b \in history[s]
        /\ history' = [history EXCEPT ![s] = history[s] \cup {file[s].body}]
        /\ cut' = cut \ {s}
    BY <1>3 DEF Rollback, Skills
  <2>6. file[s].body \in Bodies \cup Builtins
    BY <2>5, ReadableBody DEF SkillsInv
  <2>7. left \in Files /\ (left.kind = "skill" => left.body \in history[s] \cup {file[s].body})
    <3>1. CASE left = file[s]
      BY <2>5, <3>1 DEF SkillsInv, TypeOK
    <3>2. CASE left = Torn
      BY <3>2 DEF Files, Torn
    <3>3. CASE left = Stored(b, FALSE)
      <4>1. b \in Bodies \cup Builtins
        OBVIOUS
      <4>2. left \in Files
        BY <3>3, <4>1, StoredOn, Zenon
      <4>3. left.body = b
        BY <3>3, StoredOn, Zenon
      <4> QED BY <2>5, <4>2, <4>3
    <3> QED BY <2>4, <3>1, <3>2, <3>3
  <2>8. file' \in [Skills -> Files] /\ BuiltinsFixed'
    BY <2>4, <2>5, <2>7 DEF SkillsInv, TypeOK, BuiltinsFixed, Skills
  <2>9. /\ history' \in [Custom -> SUBSET (Bodies \cup Builtins)]
        /\ \A t \in Custom : history'[t] = IF t = s THEN history[s] \cup {file[s].body} ELSE history[t]
    BY <2>5, <2>6 DEF SkillsInv, TypeOK
  <2>10. Kept'
    BY <2>4, <2>5, <2>7, <2>9 DEF SkillsInv, Kept, Readable, TypeOK, Skills
  <2> QED BY <1>3, <2>5, <2>2, <2>8, <2>9, <2>10 DEF SkillsInv, TypeOK, Rollback, Obeyed
<1>4. ASSUME NEW s \in Skills, NEW status \in {"trusted", "blocked"}, Tell(s, status)
      PROVE  TypeOK' /\ BuiltinsFixed' /\ Kept' /\ Obeyed'
  <2>1. Entry(status, file[s].body) \in Entries
    BY <1>4, ReadableBody DEF Tell, SkillsInv, Entries
  <2>2. trust' = told' /\ trust' \in [Skills -> Entries]
    BY <1>4, <2>1 DEF Tell, SkillsInv, TypeOK, Obeyed
  <2> QED BY <1>4, <2>2 DEF Tell, SkillsInv, TypeOK, Obeyed, BuiltinsFixed, Kept, Readable
<1>5. ASSUME NEW s \in Skills, Untrust(s)
      PROVE  TypeOK' /\ BuiltinsFixed' /\ Kept' /\ Obeyed'
  <2>1. trust' = told' /\ trust' \in [Skills -> Entries]
    BY <1>5 DEF Untrust, SkillsInv, TypeOK, Obeyed, Entries
  <2> QED BY <1>5, <2>1 DEF Untrust, SkillsInv, TypeOK, Obeyed, BuiltinsFixed, Kept, Readable
<1>6. ASSUME NEW s \in Skills, Disable(s) \/ Enable(s)
      PROVE  TypeOK' /\ BuiltinsFixed' /\ Kept' /\ Obeyed'
  BY <1>6 DEF Disable, Enable, SkillsInv, TypeOK, Obeyed, BuiltinsFixed, Kept, Readable
<1>7. ASSUME NEW s \in Skills, NEW approved \in BOOLEAN, RunSkill(s, approved)
      PROVE  TypeOK' /\ BuiltinsFixed' /\ Kept' /\ Obeyed'
  BY <1>7 DEF RunSkill, SkillsInv, TypeOK, Obeyed, BuiltinsFixed, Kept, Readable
<1>8. CASE LoseDisabled
  <2>1. crashes' \in 0 .. MaxSkillCrashes
    BY <1>8 DEF LoseDisabled, SkillsInv, TypeOK
  <2>2. disabled' \in SUBSET Skills /\ switched' \in SUBSET Skills
    BY <1>8 DEF LoseDisabled
  <2> QED
    BY <1>8, <2>1, <2>2 DEF LoseDisabled, SkillsInv, TypeOK, Obeyed, BuiltinsFixed, Kept, Readable
<1>9. CASE LoseTrust
  <2>1. trust' = told' /\ trust' \in [Skills -> Entries]
    BY <1>9 DEF LoseTrust, Entries
  <2>2. crashes' \in 0 .. MaxSkillCrashes
    BY <1>9 DEF LoseTrust, SkillsInv, TypeOK
  <2> QED BY <1>9, <2>1, <2>2 DEF LoseTrust, SkillsInv, TypeOK, Obeyed, BuiltinsFixed, Kept, Readable
<1> QED BY <1>1, <1>2, <1>3, <1>4, <1>5, <1>6, <1>7, <1>8, <1>9 DEF Next

\* Only the runner makes a run, and it looks at the trust store and the list
\* as they are now.
LEMMA RunStep ==
  ASSUME SkillsInv, Next
  PROVE  RunsAreSanctioned'
<1>1. ASSUME NEW s \in Skills, NEW approved \in BOOLEAN, RunSkill(s, approved)
      PROVE  RunsAreSanctioned'
  <2>1. PICK how \in Outcomes :
          /\ how = "security_review_blocked" <=> Refused(s, approved)
          /\ run' = [outcome |-> how, skill |-> s, body |-> file[s].body, approved |-> approved]
    BY <1>1 DEF RunSkill
  <2>2. /\ s \notin disabled /\ Readable(s)
        /\ UNCHANGED <<file, disabled, trust, switched, told>>
    BY <1>1 DEF RunSkill, IsOff
  <2>3. SUFFICES ASSUME ~Refused(s, approved)
                 PROVE  /\ told[s].status # "blocked"
                        /\ \/ approved
                           \/ told[s] = Entry("trusted", file[s].body)
                           \/ told[s] = NoEntry /\ ~Suspicious(file[s].body)
    BY <2>1, <2>2 DEF RunsAreSanctioned, Outcomes, SkillsInv, Obeyed
  <2>4. told[s] = trust[s] /\ trust[s] \in Entries
    BY DEF SkillsInv, Obeyed, TypeOK
  <2>5. ReviewStatus(s) # "blocked" /\ (approved \/ ReviewStatus(s) # "high-risk")
    BY <2>3 DEF Refused
  <2>6. trust[s].status # "blocked"
    BY <2>5 DEF ReviewStatus, Tampered, Suspicious
  <2>7. CASE trust[s] = NoEntry
    <3>1. ~Tampered(s) /\ trust[s].status = "none"
      BY <2>7, EntryFields DEF Tampered
    <3>2. CASE s \in Builtins
      <4>1. file[s].body = s
        BY <3>2, StoredOn, Zenon DEF SkillsInv, BuiltinsFixed
      <4>2. ~Suspicious(s)
        BY <3>2, SkillsAssumption DEF Suspicious
      <4> QED BY <2>4, <2>6, <2>7, <4>1, <4>2
    <3>3. CASE s \notin Builtins
      <4>1. approved \/ ~Suspicious(file[s].body)
        BY <2>5, <3>1, <3>3 DEF ReviewStatus, Tampered, Suspicious
      <4> QED BY <2>4, <2>6, <2>7, <4>1
    <3> QED BY <3>2, <3>3
  <2>8. ASSUME NEW st \in {"trusted", "blocked"}, NEW b, trust[s] = Entry(st, b)
        PROVE  approved \/ told[s] = Entry("trusted", file[s].body)
    <3>1. st = "trusted"
      BY <2>6, <2>8, EntryFields
    <3>2. approved \/ ~Tampered(s)
      BY <2>5, <2>6 DEF ReviewStatus, Tampered, Suspicious
    <3>3. ~Tampered(s) => b = file[s].body
      BY <2>8, <3>1, EntryFields DEF Tampered
    <3> QED BY <2>4, <2>8, <3>1, <3>2, <3>3
  <2> QED BY <2>4, <2>6, <2>7, <2>8 DEF Entries
<1>2. CASE run' = NoRun
  BY <1>2 DEF RunsAreSanctioned, NoRun
<1> QED
  BY <1>1, <1>2 DEF Next, Create, Update, Delete, Rollback, Disable, Enable, Untrust,
                    Tell, LoseDisabled, LoseTrust

LEMMA SkillsInitially == Init => SkillsInv
<1> SUFFICES ASSUME Init PROVE SkillsInv
  OBVIOUS
<1>1. file \in [Skills -> Files]
  <2>1. \A s \in Builtins : Stored(s, FALSE) \in Files
    BY StoredOn, Zenon
  <2>2. Absent \in Files
    BY DEF Files
  <2> QED BY <2>1, <2>2 DEF Init
<1>2. trust \in [Skills -> Entries] /\ told \in [Skills -> Entries]
  BY DEF Init, Entries
<1>3. TypeOK
  <2>1. crashes \in 0 .. MaxSkillCrashes
    BY SkillsAssumption DEF Init
  <2>2. history \in [Custom -> SUBSET (Bodies \cup Builtins)]
    BY DEF Init
  <2>3. cut \in SUBSET Custom /\ disabled \in SUBSET Skills /\ switched \in SUBSET Skills
    BY DEF Init
  <2> QED BY <1>1, <1>2, <2>1, <2>2, <2>3 DEF TypeOK
<1>4. BuiltinsFixed
  BY DEF Init, BuiltinsFixed, Skills
<1>5. Kept
  BY SkillsAssumption, StoredFields DEF Init, Kept, Readable, Skills
<1> QED BY <1>3, <1>4, <1>5 DEF Init, SkillsInv, Obeyed, RunsAreSanctioned, NoRun

LEMMA SkillsPreserved == SkillsInv /\ [Next]_vars => SkillsInv'
<1> SUFFICES ASSUME SkillsInv, [Next]_vars PROVE SkillsInv'
  OBVIOUS
<1>1. CASE Next
  BY <1>1, SkillTypeStep, RunStep DEF SkillsInv
<1>2. CASE UNCHANGED vars
  BY <1>2 DEF vars, SkillsInv, TypeOK, Obeyed, BuiltinsFixed, Kept, Readable, RunsAreSanctioned
<1> QED BY <1>1, <1>2

LEMMA SkillsInvariant == Spec => []SkillsInv
BY SkillsInitially, SkillsPreserved, PTL DEF Spec

\* The registry, the trust store and the lists keep their shape, whatever is
\* imported and wherever a crash cuts a file short.
THEOREM SkillsTypeCorrect == Spec => []TypeOK
<1>1. SkillsInv => TypeOK
  BY DEF SkillsInv
<1> QED BY <1>1, SkillsInvariant, PTL

\* No sequence of imports, updates, rollbacks, deletions and crashes lets a
\* skill run against what the user last said of it.
THEOREM RunsSanctioned == Spec => []RunsAreSanctioned
<1>1. SkillsInv => RunsAreSanctioned
  BY DEF SkillsInv
<1> QED BY <1>1, SkillsInvariant, PTL

\* What a readable file said is kept as a revision before it is replaced.
THEOREM ContentKept == Spec => ContentIsKept
<1>1. SkillsInv /\ [Next]_vars =>
        [\A s \in Custom :
           Readable(s) /\ file'[s] # file[s] => file[s].body \in history'[s] \/ s \in cut]_vars
  <2> SUFFICES ASSUME SkillsInv, Next, NEW s \in Custom, Readable(s), file'[s] # file[s]
               PROVE  file[s].body \in history'[s] \/ s \in cut
    OBVIOUS
  <2>1. ASSUME NEW t \in Custom, NEW b \in Bodies, NEW off \in BOOLEAN, Save(t, b, off)
        PROVE  history[s] \subseteq history'[s]
    BY <2>1 DEF Save, SkillsInv, TypeOK
  <2>2. ASSUME NEW t \in Custom, NEW b \in Bodies, Rollback(t, b)
        PROVE  history[s] \subseteq history'[s]
    BY <2>2 DEF Rollback, SkillsInv, TypeOK
  <2>3. UNCHANGED history => history[s] \subseteq history'[s]
    OBVIOUS
  <2>4. history[s] \subseteq history'[s]
    BY <2>1, <2>2, <2>3 DEF Next, Create, Update, Delete, Disable, Enable, Untrust,
                            Tell, LoseDisabled, LoseTrust, RunSkill
  <2> QED BY <2>4 DEF SkillsInv, Kept
<1> QED BY <1>1, SkillsInvariant, PTL DEF Spec, ContentIsKept
-----------------------------------------------------------------------------
(***************************************************************************)
(* The chunks of a file: for every length of the pieces and of their       *)
(* overlap.                                                                *)
(***************************************************************************)
\* What the cutting keeps: the next piece begins an overlap before the end of
\* the last one, so a passage that ends beyond it begins inside the next.
Cutting ==
  /\ length \in Nat /\ length > 0 /\ breaks \subseteq Nat /\ chunks \in Seq(C!Piece)
  /\ start \in Nat /\ done \in Nat /\ done <= length
  /\ cutting = "cutting" => start <= C!Most(done - Overlap, 0) /\ start < length

ChunksInv == Cutting /\ C!PassagesAreWhole

\* Every step of the loop begins further on than the one before (chunk_text):
\* the cutting of a text ends.
CutsAdvance == [][cutting = "cutting" /\ cutting' = "cutting" => start' > start]_(C!vars)

\* A piece reaches beyond the middle of its window, or to the end of the text.
LEMMA EndsFarEnough ==
  ASSUME Cutting, cutting = "cutting", NEW e \in C!Ends(start)
  PROVE  /\ e \in Nat /\ start < e /\ e <= length
         /\ e < length => e - start > Overlap
<1> DEFINE last == C!Least(start + ChunkChars, length)
           late == {i \in breaks : start + ChunkChars \div 2 < i /\ i < last}
<1> USE ChunkAssumption
<1>1. last \in Nat /\ start < last /\ last <= length /\ (last < length => last = start + ChunkChars)
  BY DEF C!Least, Cutting
<1>2. e = last \/ e \in late
  BY DEF C!Ends
<1>3. ASSUME e \in late PROVE e \in Nat /\ e < last /\ e > start + ChunkChars \div 2
  BY <1>3 DEF Cutting
<1>4. ChunkChars \div 2 \in Nat /\ Overlap <= ChunkChars \div 2 /\ ChunkChars > Overlap
  OBVIOUS
<1>5. start \in Nat /\ length \in Nat
  BY DEF Cutting
<1>6. CASE e = last
  BY <1>1, <1>4, <1>5, <1>6
<1>7. CASE e \in late
  <2> HIDE DEF last, late
  <2> QED BY <1>1, <1>3, <1>4, <1>5, <1>7
<1> QED BY <1>2, <1>6, <1>7

LEMMA CutKeeps == ASSUME ChunksInv, C!Cut PROVE ChunksInv'
<1> USE ChunkAssumption
<1>1. PICK e \in C!Ends(start) :
        /\ chunks' = IF C!Worded(start, e) THEN Append(chunks, [from |-> start, to |-> e])
                                         ELSE chunks
        /\ done' = e
        /\ start' = IF e < length THEN C!NextStart(start, e) ELSE start
        /\ cutting' = IF e < length THEN "cutting" ELSE "stored"
  BY DEF C!Cut
<1>2. /\ cutting = "cutting" /\ UNCHANGED <<length, breaks>>
      /\ Cutting /\ C!PassagesAreWhole
  BY DEF C!Cut, C!text, ChunksInv
<1>3. /\ e \in Nat /\ start < e /\ e <= length
      /\ e < length => e - start > Overlap
  BY <1>2, EndsFarEnough
<1>4. /\ start \in Nat /\ done \in Nat /\ length \in Nat /\ chunks \in Seq(C!Piece)
      /\ start <= C!Most(done - Overlap, 0) /\ done <= length
  BY <1>2 DEF Cutting
<1>5. [from |-> start, to |-> e] \in C!Piece
  BY <1>3, <1>4 DEF C!Piece
<1>6. Cutting'
  <2>1. chunks' \in Seq(C!Piece)
    BY <1>1, <1>4, <1>5
  <2>2. CASE e < length
    <3>1. start' = e - Overlap
      BY <1>1, <1>3, <1>4, <2>2 DEF C!NextStart, C!Most
    <3> QED BY <1>1, <1>2, <1>3, <1>4, <2>1, <2>2, <3>1 DEF Cutting, C!Most
  <2>3. CASE ~(e < length)
    BY <1>1, <1>2, <1>3, <1>4, <2>1, <2>3 DEF Cutting
  <2> QED BY <2>2, <2>3
<1>7. C!PassagesAreWhole'
  <2> SUFFICES ASSUME NEW a \in (0 .. done)', NEW n \in (1 .. C!Most(1, Overlap))',
                      (a + n <= done)', (a \notin breaks)', (a + n - 1 \notin breaks)'
               PROVE  (\E c \in DOMAIN chunks : chunks[c].from <= a /\ a + n <= chunks[c].to)'
    BY DEF C!PassagesAreWhole
  <2>1. a \in Nat /\ n \in Nat /\ n >= 1 /\ n <= C!Most(1, Overlap) /\ a + n <= e
    BY <1>1, <1>3 DEF C!Most
  <2>2. CASE a + n <= done
    <3>1. a \in 0 .. done /\ n \in 1 .. C!Most(1, Overlap)
      BY <2>1, <2>2, <1>4 DEF C!Most
    <3>2. PICK c \in DOMAIN chunks : chunks[c].from <= a /\ a + n <= chunks[c].to
      BY <1>2, <2>2, <3>1 DEF C!PassagesAreWhole
    <3>3. c \in DOMAIN chunks' /\ chunks'[c] = chunks[c]
      BY <1>1, <1>4, <1>5, <3>2
    <3> QED BY <3>2, <3>3
  <2>3. CASE ~(a + n <= done)
    <3>1. start <= a
      BY <1>4, <2>1, <2>3 DEF C!Most
    <3>2. a \in start .. e - 1 /\ a \notin breaks
      BY <1>2, <1>3, <1>4, <2>1, <3>1
    <3>3. C!Worded(start, e)
      BY <3>2 DEF C!Worded
    <3>4. chunks' = Append(chunks, [from |-> start, to |-> e])
      BY <1>1, <3>3
    <3>5. /\ Len(chunks) + 1 \in DOMAIN chunks'
          /\ chunks'[Len(chunks) + 1] = [from |-> start, to |-> e]
      BY <1>4, <1>5, <3>4
    <3>6. chunks'[Len(chunks) + 1].from = start /\ chunks'[Len(chunks) + 1].to = e
      BY <3>5
    <3> QED BY <2>1, <3>1, <3>5, <3>6
  <2> QED BY <2>2, <2>3
<1> QED BY <1>6, <1>7 DEF ChunksInv

LEMMA ChunksPreserved == ChunksInv /\ [C!Next]_(C!vars) => ChunksInv'
<1> SUFFICES ASSUME ChunksInv, [C!Next]_(C!vars) PROVE ChunksInv'
  OBVIOUS
<1>1. CASE C!Cut
  BY <1>1, CutKeeps
<1>2. CASE ~C!Cut
  <2>1. /\ UNCHANGED <<length, breaks, chunks, start, done>>
        /\ cutting' = "cutting" => cutting = "cutting"
    BY <1>2 DEF C!Next, C!Try, C!Rank, C!Sample, C!Answer, C!Finish, C!Ask, C!Consider, C!Read, C!vars, C!text
  <2> QED BY <2>1 DEF ChunksInv, Cutting, C!PassagesAreWhole
<1> QED BY <1>1, <1>2

\* For every text, and every size of piece with an overlap of at most half of it:
\* no passage as long as the overlap is torn by _chunk_text.
THEOREM PassagesWhole == C!Spec => []PassagesAreWhole
<1>1. C!Init => ChunksInv
  BY ChunkAssumption DEF C!Init, ChunksInv, Cutting, C!PassagesAreWhole, C!Most, C!Piece
<1>2. ChunksInv => PassagesAreWhole
  BY DEF ChunksInv, PassagesAreWhole
<1> QED BY <1>1, <1>2, ChunksPreserved, PTL DEF C!Spec

\* The loop of _chunk_text goes forward with every piece, so it ends.
THEOREM CuttingEnds == C!Spec => CutsAdvance
<1>1. C!Init => ChunksInv
  BY ChunkAssumption DEF C!Init, ChunksInv, Cutting, C!PassagesAreWhole, C!Most, C!Piece
<1>2. ChunksInv /\ [C!Next]_(C!vars) =>
        [cutting = "cutting" /\ cutting' = "cutting" => start' > start]_(C!vars)
  <2> SUFFICES ASSUME ChunksInv, C!Next, cutting = "cutting", cutting' = "cutting", C!vars' # C!vars
               PROVE  start' > start
    BY DEF C!vars
  <2>1. C!Cut
    BY DEF C!Next, C!Try, C!Rank, C!Sample, C!Answer, C!Finish, C!Ask, C!Consider, C!Read
  <2>2. PICK e \in C!Ends(start) :
          /\ start' = IF e < length THEN C!NextStart(start, e) ELSE start
          /\ cutting' = IF e < length THEN "cutting" ELSE "stored"
    BY <2>1 DEF C!Cut
  <2>3. e < length /\ start' = C!NextStart(start, e)
    BY <2>2
  <2>4. e \in Nat /\ start \in Nat
    BY <2>2, EndsFarEnough DEF ChunksInv, Cutting
  <2> QED BY <2>3, <2>4, ChunkAssumption DEF C!NextStart, C!Most
<1> QED BY <1>1, <1>2, ChunksPreserved, PTL DEF C!Spec, CutsAdvance

(***************************************************************************)
(* The packs of a project. By the time a pack is taken away the catalogue  *)
(* has listed them all, so that every pack that is enabled can be read;    *)
(* what is left then holds the skills of those that stay, and it is no     *)
(* longer than the list was, so that nothing is cut off its end.           *)
(***************************************************************************)
PacksInv ==
  /\ pack \in [Packs -> Manifests \cup {P!NoPack}]
  /\ revisions \in [Packs -> SUBSET Manifests]
  /\ enabled \in Seq(P!Skills) /\ Len(enabled) <= MaxEnabled
  /\ enabledPacks \subseteq Packs

\* What Bind is given are lists of skills, and it cuts them.
LEMMA BindKeeps ==
  ASSUME NEW list \in Seq(P!Skills), NEW chosenPacks \in SUBSET Packs, NEW def,
         P!Bind(list, chosenPacks, def)
  PROVE  /\ enabled' \in Seq(P!Skills) /\ Len(enabled') <= MaxEnabled
         /\ enabledPacks' = chosenPacks
         /\ def \notin P!Skills \ ToSet(list) /\ Len(list) <= MaxEnabled => enabled' = list
<1> DEFINE listed == IF def \in P!Skills /\ def \notin ToSet(list) THEN <<def>> \o list ELSE list
<1>1. enabled' = P!Cut(listed) /\ enabledPacks' = chosenPacks
  BY DEF P!Bind, P!ToSet, ToSet
<1>2. listed \in Seq(P!Skills)
  <2>1. CASE def \in P!Skills
    <3>1. <<def>> \in Seq(P!Skills)
      BY <2>1
    <3> QED BY <2>1, <3>1
  <2>2. CASE def \notin P!Skills
    BY <2>2
  <2> QED BY <2>1, <2>2
<1>3. MaxEnabled \in Nat
  BY PacksAssumption
<1>4. ASSUME def \notin P!Skills \ ToSet(list) PROVE listed = list
  BY <1>4
<1> HIDE DEF listed
<1>5. /\ P!Cut(listed) \in Seq(P!Skills) /\ Len(P!Cut(listed)) <= MaxEnabled
      /\ Len(listed) <= MaxEnabled => P!Cut(listed) = listed
  BY <1>2, <1>3 DEF P!Cut
<1> QED BY <1>1, <1>4, <1>5

LEMMA PacksInOrder == ASSUME NEW S, NEW less PROVE P!InOrder(S, less) = InOrder(S, less)
<1> DEFINE their(k) == CHOOSE i \in S : P!Cardinality({j \in S : j = i \/ <<j, i>> \in less}) = k
           ours(k)  == CHOOSE i \in S : Cardinality({j \in S : j = i \/ <<j, i>> \in less}) = k
<1>1. \A X : P!Cardinality(X) = Cardinality(X)
  BY DEF P!Cardinality, Cardinality
<1>2. \A k : their(k) = ours(k)
  <2> TAKE k
  <2>1. \A i : (i \in S /\ P!Cardinality({j \in S : j = i \/ <<j, i>> \in less}) = k)
              <=> (i \in S /\ Cardinality({j \in S : j = i \/ <<j, i>> \in less}) = k)
    BY <1>1
  <2> QED BY <2>1
<1>3. InOrder(S, less) = [k \in 1 .. Cardinality(S) |-> ours(k)]
  BY DEF InOrder
<1>4. P!InOrder(S, less) = [k \in 1 .. P!Cardinality(S) |-> their(k)]
  BY DEF P!InOrder
<1>5. P!Cardinality(S) = Cardinality(S)
  BY <1>1
<1> HIDE DEF their, ours
<1> QED BY <1>2, <1>3, <1>4, <1>5

LEMMA PacksAmong == ASSUME NEW seq, NEW S PROVE P!Among(seq, S) = Among(seq, S)
<1> DEFINE kept == {i \in DOMAIN seq : seq[i] \in S}
           less == {x \in kept \X kept : x[1] < x[2]}
<1>1. P!InOrder(kept, less) = InOrder(kept, less)
  BY PacksInOrder
<1>2. /\ Among(seq, S) = [k \in DOMAIN InOrder(kept, less) |-> seq[InOrder(kept, less)[k]]]
      /\ P!Among(seq, S) = [k \in DOMAIN P!InOrder(kept, less) |-> seq[P!InOrder(kept, less)[k]]]
  BY DEF Among, P!Among
<1> HIDE DEF kept, less
<1> QED BY <1>1, <1>2

LEMMA WithoutKeeps ==
  ASSUME NEW list \in Seq(P!Skills), NEW S
  PROVE  /\ P!Without(list, S) \in Seq(P!Skills) /\ Len(P!Without(list, S)) <= Len(list)
         /\ ToSet(P!Without(list, S)) = ToSet(list) \ S
<1>1. P!Without(list, S) = Among(list, P!Skills \ S)
  BY PacksAmong DEF P!Without
<1>2. Among(list, P!Skills \ S) \in Seq(P!Skills \cap (P!Skills \ S))
      /\ Len(Among(list, P!Skills \ S)) <= Len(list)
  BY AmongFacts
<1>3. ToSet(Among(list, P!Skills \ S)) = ToSet(list) \cap (P!Skills \ S)
  BY AmongElements
<1>4. ToSet(list) \subseteq P!Skills
  BY DEF ToSet
<1>5. Among(list, P!Skills \ S) \in Seq(P!Skills)
  BY <1>2
<1> QED BY <1>1, <1>2, <1>3, <1>4, <1>5

LEMMA EnablePackKeeps ==
  ASSUME PacksInv, NEW p \in Packs, NEW m \in Manifests \cup {P!NoPack}, P!EnablePack(p, m)
  PROVE  enabled' \in Seq(P!Skills) /\ Len(enabled') <= MaxEnabled /\ enabledPacks' \subseteq Packs
<1> DEFINE found == Among(m, {s \in P!Skills : P!Found(s)})
           list == enabled \o P!Without(found, ToSet(enabled))
           def == IF default = P!NoSkill /\ found # <<>> THEN Head(found) ELSE default
<1>1. m \in Seq(P!Skills)
  <2>1. CASE m \in Manifests
    BY <2>1, PacksAssumption DEF P!Skills
  <2>2. CASE m = P!NoPack
    BY <2>2 DEF P!NoPack
  <2> QED BY <2>1, <2>2
<1>2. found \in Seq(P!Skills \cap {s \in P!Skills : P!Found(s)})
  BY <1>1, AmongFacts
<1>3. found \in Seq(P!Skills)
  BY <1>2
<1>4. P!Without(found, ToSet(enabled)) \in Seq(P!Skills)
  BY <1>3, WithoutKeeps
<1>5. list \in Seq(P!Skills) /\ enabledPacks \cup {p} \in SUBSET Packs
  BY <1>4 DEF PacksInv
<1>6. P!Bind(list, enabledPacks \cup {p}, def)
  <2>1. P!Among(m, {s \in P!Skills : P!Found(s)}) = found
    BY PacksAmong
  <2> HIDE DEF found
  <2> QED BY <2>1 DEF P!EnablePack, P!ToSet, ToSet
<1> HIDE DEF list, def
<1> QED BY <1>5, <1>6, BindKeeps

LEMMA PacksStep == ASSUME PacksInv, P!Next PROVE PacksInv'
<1>1. /\ pack \in [Packs -> Manifests \cup {P!NoPack}] /\ revisions \in [Packs -> SUBSET Manifests]
      /\ enabled \in Seq(P!Skills) /\ Len(enabled) <= MaxEnabled /\ enabledPacks \subseteq Packs
  BY DEF PacksInv
<1>2. ASSUME NEW s \in PackCustom,
             \/ P!DeleteSkill(s) \/ P!BreakSkill(s)
             \/ \E overwrite \in BOOLEAN : P!CreateSkill(s, overwrite)
      PROVE  PacksInv'
  BY <1>1, <1>2 DEF PacksInv, P!DeleteSkill, P!BreakSkill, P!CreateSkill, P!binding
<1>3. ASSUME NEW s \in P!Skills, P!SkillRan(s) PROVE PacksInv'
  <2>1. /\ enabled' = IF s \in ToSet(enabled) THEN enabled ELSE P!Cut(<<s>> \o enabled)
        /\ UNCHANGED <<enabledPacks, pack, revisions>>
    BY <1>3 DEF P!SkillRan, P!ToSet, ToSet
  <2>2. <<s>> \o enabled \in Seq(P!Skills)
    BY <1>1
  <2>3. P!Cut(<<s>> \o enabled) \in Seq(P!Skills) /\ Len(P!Cut(<<s>> \o enabled)) <= MaxEnabled
    <3> DEFINE longer == <<s>> \o enabled
    <3> HIDE DEF longer
    <3>1. longer \in Seq(P!Skills)
      BY <2>2 DEF longer
    <3>2. P!Cut(longer) \in Seq(P!Skills) /\ Len(P!Cut(longer)) <= MaxEnabled
      BY <3>1, PacksAssumption DEF P!Cut
    <3> QED BY <3>2 DEF longer
  <2> QED BY <1>1, <2>1, <2>3 DEF PacksInv
<1>4. ASSUME NEW s \in P!Skills, P!CatalogInstallSkill(s) PROVE PacksInv'
  <2>1. PICK def : /\ P!Bind(enabled \o P!Without(<<s>>, ToSet(enabled)), enabledPacks, def)
                   /\ UNCHANGED <<pack, revisions>>
    BY <1>4 DEF P!CatalogInstallSkill, P!ToSet, ToSet
  <2>2. <<s>> \in Seq(P!Skills)
    OBVIOUS
  <2>3. P!Without(<<s>>, ToSet(enabled)) \in Seq(P!Skills)
    BY <2>2, WithoutKeeps
  <2>4. enabled \o P!Without(<<s>>, ToSet(enabled)) \in Seq(P!Skills) /\ enabledPacks \in SUBSET Packs
    BY <1>1, <2>3
  <2>5. enabled' \in Seq(P!Skills) /\ Len(enabled') <= MaxEnabled /\ enabledPacks' = enabledPacks
    BY <2>1, <2>4, BindKeeps
  <2> QED BY <1>1, <2>1, <2>5 DEF PacksInv
<1>5. ASSUME NEW s \in P!Skills, P!CatalogUninstallSkill(s) PROVE PacksInv'
  <2>1. PICK def : P!Bind(P!Without(enabled, {s}), enabledPacks, def) /\ UNCHANGED <<pack, revisions>>
    BY <1>5 DEF P!CatalogUninstallSkill
  <2>2. P!Without(enabled, {s}) \in Seq(P!Skills) /\ enabledPacks \in SUBSET Packs
    BY <1>1, WithoutKeeps
  <2>3. enabled' \in Seq(P!Skills) /\ Len(enabled') <= MaxEnabled /\ enabledPacks' = enabledPacks
    BY <2>1, <2>2, BindKeeps
  <2> QED BY <1>1, <2>1, <2>3 DEF PacksInv
<1>6. ASSUME NEW p \in Packs, P!DeletePack(p) \/ P!BreakPack(p) PROVE PacksInv'
  BY <1>1, <1>6 DEF PacksInv, P!DeletePack, P!BreakPack, P!binding
<1>7. ASSUME NEW p \in Packs, P!InstallPack(p) \/ P!CatalogInstallPack(p) PROVE PacksInv'
  <2>1. P!EnablePack(p, pack[p]) /\ UNCHANGED <<pack, revisions>> /\ pack[p] \in Manifests \cup {P!NoPack}
    BY <1>1, <1>7 DEF P!InstallPack, P!CatalogInstallPack
  <2> QED BY <1>1, <2>1, EnablePackKeeps DEF PacksInv
<1>8. ASSUME NEW p \in Packs, P!CatalogUninstallPack(p) PROVE PacksInv'
  <2>1. PICK S, def : P!Bind(P!Without(enabled, S), enabledPacks \ {p}, def) /\ UNCHANGED <<pack, revisions>>
    BY <1>8 DEF P!CatalogUninstallPack
  <2>2. P!Without(enabled, S) \in Seq(P!Skills) /\ enabledPacks \ {p} \in SUBSET Packs
    BY <1>1, WithoutKeeps
  <2>3. enabled' \in Seq(P!Skills) /\ Len(enabled') <= MaxEnabled /\ enabledPacks' = enabledPacks \ {p}
    BY <2>1, <2>2, BindKeeps
  <2> QED BY <1>1, <2>1, <2>3 DEF PacksInv
<1>9. ASSUME NEW p \in Packs, NEW m \in Manifests, NEW embedded, NEW policy,
             P!ImportPack(p, m, embedded, policy)
      PROVE  PacksInv'
  <2>1. /\ pack' = [pack EXCEPT ![p] = m] \/ pack' = pack
        /\ revisions' = [revisions EXCEPT ![p] = @ \cup {m}] \/ revisions' = revisions
        /\ UNCHANGED <<enabled, enabledPacks>>
    BY <1>9 DEF P!ImportPack, P!binding
  <2> QED BY <1>1, <2>1 DEF PacksInv
<1>10. ASSUME NEW p \in Packs, NEW m \in Manifests, NEW project, P!RestorePack(p, m, project) PROVE PacksInv'
  <2>1. /\ pack' = [pack EXCEPT ![p] = m] /\ UNCHANGED revisions
        /\ P!EnablePack(p, m) \/ UNCHANGED <<enabled, enabledPacks>>
    BY <1>10 DEF P!RestorePack, P!binding
  <2>2. enabled' \in Seq(P!Skills) /\ Len(enabled') <= MaxEnabled /\ enabledPacks' \subseteq Packs
    BY <1>1, <2>1, EnablePackKeeps
  <2> QED BY <1>1, <2>1, <2>2 DEF PacksInv
<1>11. ASSUME NEW list \in Manifests \cup {<<>>}, NEW packSet \in SUBSET Packs, NEW def,
              P!SetBinding(list, packSet, def)
       PROVE  PacksInv'
  <2>1. list \in Seq(P!Skills)
    <3>1. CASE list \in Manifests
      BY <3>1, PacksAssumption DEF P!Skills
    <3>2. CASE list = <<>>
      BY <3>2
    <3> QED BY <3>1, <3>2
  <2>2. P!Bind(list, packSet, def) /\ UNCHANGED <<pack, revisions>>
    BY <1>11 DEF P!SetBinding
  <2> QED BY <1>1, <2>1, <2>2, BindKeeps DEF PacksInv
<1> QED
  BY <1>2, <1>3, <1>4, <1>5, <1>6, <1>7, <1>8, <1>9, <1>10, <1>11 DEF P!Next

LEMMA PacksInvariant == P!Spec => []PacksInv
<1>1. P!Init => PacksInv
  BY PacksAssumption DEF P!Init, PacksInv, P!Skills
<1>2. PacksInv /\ UNCHANGED P!vars => PacksInv'
  BY DEF PacksInv, P!vars, P!binding
<1> QED BY <1>1, <1>2, PacksStep, PTL DEF P!Spec

\* By the time a pack is taken away every other pack there is could be
\* exported, so that _uninstall_pack looks away from none of those enabled; and
\* what is left is no longer than what was there, so that nothing is cut off it.
THEOREM UninstallSparesOthers == P!Spec => UninstallSpares
<1> DEFINE Spares == \A q \in enabledPacks' :
                       \/ P!ToSet(pack[q]) \cap P!ToSet(enabled) \subseteq P!ToSet(enabled')
                       \/ \A p \in Packs : ~P!CatalogUninstallPack(p)
<1>1. PacksInv /\ [P!Next]_(P!vars) => [Spares]_(P!vars)
  <2> SUFFICES ASSUME PacksInv, NEW q \in enabledPacks', NEW p \in Packs, P!CatalogUninstallPack(p),
                      NEW s \in ToSet(pack[q]), s \in ToSet(enabled)
               PROVE  s \in ToSet(enabled')
    BY DEF P!ToSet, ToSet
  <2> DEFINE others == enabledPacks \ {p}
             spared == UNION {ToSet(pack[o]) : o \in {o \in others : P!Exportable(o)}}
             rest   == P!Without(enabled, ToSet(pack[p]) \ spared)
             def    == IF default \in ToSet(rest) THEN default ELSE P!FirstOf(rest)
  <2>1. P!Bind(rest, others, def) /\ P!CatalogWorks
    BY DEF P!CatalogUninstallPack, P!ToSet, ToSet
  <2>2. rest \in Seq(P!Skills) /\ Len(rest) <= Len(enabled) /\ others \in SUBSET Packs
        /\ ToSet(rest) = ToSet(enabled) \ (ToSet(pack[p]) \ spared)
    BY WithoutKeeps DEF PacksInv
  <2>3. q \in others /\ q \in Packs
    BY <2>1, <2>2, BindKeeps
  <2>4. P!Exportable(q)
    <3>1. pack[q] # P!NoPack
      BY DEF P!NoPack, ToSet
    <3> QED BY <2>1, <2>3, <3>1 DEF P!CatalogWorks, P!Exists
  <2>5. s \in ToSet(rest)
    BY <2>2, <2>3, <2>4
  <2>6. def \in ToSet(rest)
    <3> HIDE DEF rest
    <3>1. rest # <<>> => Head(rest) \in ToSet(rest)
      BY <2>2 DEF ToSet
    <3>2. rest # <<>>
      BY <2>5 DEF ToSet
    <3> QED BY <3>1, <3>2 DEF P!FirstOf
  <2>7. Len(rest) <= MaxEnabled
    <3> HIDE DEF rest
    <3> QED BY <2>2, PacksAssumption DEF PacksInv
  <2>8. enabled' = rest
    <3> HIDE DEF rest, def, others
    <3> QED BY <2>1, <2>2, <2>6, <2>7, BindKeeps
  <2> QED BY <2>5, <2>8
<1> QED BY <1>1, PacksInvariant, PTL DEF P!Spec, UninstallSpares, P!UninstallSpares

(***************************************************************************)
(* The projects. A step touches one of them (or the outputs of some), and  *)
(* leaves it Sound: what follows, field by field, from what it was before. *)
(***************************************************************************)
ChatEntries == [id : Chats, at : Times]
Artifacts   == [id : Items, files : Seq(Items)]

\* No two artifacts of a project have one id.
OneOfEach(list) == \A k, m \in DOMAIN list : list[k].id = list[m].id => k = m

\* What a project may be: its state, conversations, saved items, outputs,
\* artifacts, documents, texts and what uploads that were cut off have left. It is
\* what DirectoriesAgree says, and that nothing is left by an upload when it is gone.
Sound(d, c, s, o, a, docs, t, stray) ==
  /\ d \in {"none", "there", "halved", "torn", "gone"}
  /\ c \in Seq(ChatEntries) /\ Len(c) <= MaxChats
  /\ s \in Seq(Items) /\ o \in Seq(Items) /\ a \in Seq(Artifacts) /\ OneOfEach(a)
  /\ docs \in Seq(Documents) /\ t \in SUBSET Documents /\ stray \in SUBSET Documents
  /\ d = "there" => IsInjective(docs) /\ ToSet(docs) \subseteq t /\ t \ ToSet(docs) = stray
  /\ d \in {"none", "gone"} => /\ s = <<>> /\ a = <<>> /\ docs = <<>> /\ t = {} /\ c = <<>> /\ o = <<>>
                               /\ stray = {}

SpacesType ==
  /\ disk \in [Projects -> {"none", "there", "halved", "torn", "gone"}]
  /\ chats \in [Projects -> Seq(ChatEntries)]
  /\ saved \in [Projects -> Seq(Items)] /\ outputs \in [Projects -> Seq(Items)]
  /\ artifacts \in [Projects -> Seq(Artifacts)]
  /\ documents \in [Projects -> Seq(Documents)]
  /\ texts \in [Projects -> SUBSET Documents] /\ strays \in [Projects -> SUBSET Documents]

SpacesInv ==
  /\ SpacesType
  /\ \A p \in Projects : Sound(disk[p], chats[p], saved[p], outputs[p], artifacts[p],
                               documents[p], texts[p], strays[p])

LEMMA SpacesInOrder == ASSUME NEW S, NEW less PROVE W!InOrder(S, less) = InOrder(S, less)
<1> DEFINE their(k) == CHOOSE i \in S : W!Cardinality({j \in S : j = i \/ <<j, i>> \in less}) = k
           ours(k)  == CHOOSE i \in S : Cardinality({j \in S : j = i \/ <<j, i>> \in less}) = k
<1>1. \A X : W!Cardinality(X) = Cardinality(X)
  BY DEF W!Cardinality, Cardinality
<1>2. \A k : their(k) = ours(k)
  <2> TAKE k
  <2>1. \A i : (i \in S /\ W!Cardinality({j \in S : j = i \/ <<j, i>> \in less}) = k)
              <=> (i \in S /\ Cardinality({j \in S : j = i \/ <<j, i>> \in less}) = k)
    BY <1>1
  <2> QED BY <2>1
<1>3. InOrder(S, less) = [k \in 1 .. Cardinality(S) |-> ours(k)]
  BY DEF InOrder
<1>4. W!InOrder(S, less) = [k \in 1 .. W!Cardinality(S) |-> their(k)]
  BY DEF W!InOrder
<1>5. W!Cardinality(S) = Cardinality(S)
  BY <1>1
<1> HIDE DEF their, ours
<1> QED BY <1>2, <1>3, <1>4, <1>5

LEMMA SpacesAmong == ASSUME NEW seq, NEW S PROVE W!Among(seq, S) = Among(seq, S)
<1> DEFINE kept == {i \in DOMAIN seq : seq[i] \in S}
           less == {x \in kept \X kept : x[1] < x[2]}
<1>1. W!InOrder(kept, less) = InOrder(kept, less)
  BY SpacesInOrder
<1>2. /\ Among(seq, S) = [k \in DOMAIN InOrder(kept, less) |-> seq[InOrder(kept, less)[k]]]
      /\ W!Among(seq, S) = [k \in DOMAIN W!InOrder(kept, less) |-> seq[W!InOrder(kept, less)[k]]]
  BY DEF Among, W!Among
<1> HIDE DEF kept, less
<1> QED BY <1>1, <1>2

LEMMA NewestKeeps ==
  ASSUME NEW X, NEW seq \in Seq(X), NEW n \in Nat
  PROVE  /\ W!Newest(seq, n) \in Seq(X) /\ Len(W!Newest(seq, n)) <= n
         /\ Len(seq) <= n => W!Newest(seq, n) = seq
  BY DEF W!Newest

LEMMA FirstKeeps ==
  ASSUME NEW X, NEW seq \in Seq(X), NEW n \in Nat
  PROVE  /\ W!First(seq, n) \in Seq(X) /\ Len(W!First(seq, n)) <= n
         /\ Len(seq) <= n => W!First(seq, n) = seq
  BY DEF W!First

\* Sorting loses no conversation of a list that is not too long.
LEMMA SortedKeeps ==
  ASSUME NEW seq \in Seq(ChatEntries)
  PROVE  /\ W!Sorted(seq) \in Seq(ChatEntries)
         /\ Len(seq) <= MaxChats =>
              /\ Len(W!Sorted(seq)) = Len(seq)
              /\ \A i \in DOMAIN seq : \E k \in DOMAIN W!Sorted(seq) : W!Sorted(seq)[k] = seq[i]
<1> DEFINE n == Len(seq)
           D == DOMAIN seq
           less == {x \in D \X D : \/ seq[x[1]].at > seq[x[2]].at
                                   \/ seq[x[1]].at = seq[x[2]].at /\ x[1] < x[2]}
           order == InOrder(D, less)
           list == [k \in D |-> seq[order[k]]]
<1>1. n \in Nat /\ D = 1 .. n /\ \A i \in D : seq[i] \in ChatEntries
  OBVIOUS
<1>2. \A i \in D : seq[i].at \in Int
  <2>1. \A e \in ChatEntries : e.at \in Times
    BY DEF ChatEntries
  <2> QED BY <1>1, <2>1, WorkspaceAssumption
<1>3. IsFiniteSet(D) /\ Cardinality(D) = n
  BY <1>1, FS_Interval
<1>4. W!Sorted(seq) = W!First(list, MaxChats)
  <2>1. W!InOrder(D, less) = order
    BY SpacesInOrder
  <2>2. W!Sorted(seq) = W!First([k \in D |-> seq[W!InOrder(D, less)[k]]], MaxChats)
    BY DEF W!Sorted
  <2> HIDE DEF D, less, order
  <2> QED BY <2>1, <2>2
<1>5. \A i, j \in D : <<i, j>> \in less <=>
         seq[i].at > seq[j].at \/ (seq[i].at = seq[j].at /\ i < j)
  <2> HIDE DEF D
  <2> QED OBVIOUS
<1> HIDE DEF less, n, D
<1>6. Orders(less, D)
  <2> DEFINE time(i) == seq[i].at
  <2>1. \A i \in D : time(i) \in Int /\ i \in Int
    BY <1>1, <1>2
  <2>2. \A i, j \in D : <<i, j>> \in less <=> time(i) > time(j) \/ (time(i) = time(j) /\ i < j)
    BY <1>5
  <2> HIDE DEF time
  <2>3. \A i \in D : <<i, i>> \notin less
    BY <2>1, <2>2
  <2>4. \A i, j \in D : i # j => <<i, j>> \in less \/ <<j, i>> \in less
    BY <2>1, <2>2
  <2>5. \A i, j, k \in D : <<i, j>> \in less /\ <<j, k>> \in less => <<i, k>> \in less
    BY <2>1, <2>2
  <2> QED BY <2>3, <2>4, <2>5 DEF Orders
<1>7. /\ order \in [1 .. n -> D] /\ \A i \in D : \E k \in 1 .. n : order[k] = i
  BY <1>3, <1>6, InOrderFacts
<1> HIDE DEF order
<1>8. list \in [1 .. n -> ChatEntries] /\ \A k \in 1 .. n : list[k] = seq[order[k]]
  BY <1>1, <1>7
<1> HIDE DEF list
<1>9. list \in Seq(ChatEntries) /\ Len(list) = n /\ DOMAIN list = 1 .. n
  BY <1>1, <1>8
<1>10. /\ W!First(list, MaxChats) \in Seq(ChatEntries)
       /\ n <= MaxChats => W!First(list, MaxChats) = list
  BY <1>9, FirstKeeps, WorkspaceAssumption
<1>11. \A i \in D : \E k \in 1 .. n : list[k] = seq[i]
  BY <1>7, <1>8
<1> QED BY <1>4, <1>9, <1>10, <1>11 DEF n, D

\* A conversation is put last, and takes no other's place unless the list is full.
LEMMA UpsertKeeps ==
  ASSUME NEW list \in Seq(ChatEntries), NEW c \in Chats, NEW when \in Times
  PROVE  LET next == W!Newest(Append(W!Among(W!Sorted(list), [id : Chats \ {c}, at : Times]),
                                     [id |-> c, at |-> when]), MaxChats)
         IN  /\ next \in Seq(ChatEntries) /\ Len(next) <= MaxChats
             /\ Len(list) < MaxChats =>
                  \A i \in DOMAIN list : \E k \in DOMAIN next : next[k].id = list[i].id
<1> DEFINE sorted == W!Sorted(list)
           S == [id : Chats \ {c}, at : Times]
           kept == Among(sorted, S)
           longer == Append(kept, [id |-> c, at |-> when])
           next == W!Newest(longer, MaxChats)
<1>1. /\ sorted \in Seq(ChatEntries)
      /\ Len(list) <= MaxChats =>
              /\ Len(sorted) = Len(list)
              /\ \A i \in DOMAIN list : \E k \in DOMAIN sorted : sorted[k] = list[i]
  BY SortedKeeps
<1>2. W!Among(sorted, S) = kept
  BY SpacesAmong
<1> HIDE DEF sorted
<1>3. kept \in Seq(ChatEntries \cap S) /\ Len(kept) <= Len(sorted) /\ ToSet(kept) = ToSet(sorted) \cap S
  BY <1>1, AmongFacts, AmongElements
<1> HIDE DEF kept, S
<1>4. [id |-> c, at |-> when] \in ChatEntries
  BY DEF ChatEntries
<1>5. kept \in Seq(ChatEntries)
  BY <1>3
<1>6. longer \in Seq(ChatEntries) /\ Len(longer) = Len(kept) + 1
      /\ longer[Len(longer)] = [id |-> c, at |-> when]
      /\ \A k \in DOMAIN kept : k \in DOMAIN longer /\ longer[k] = kept[k]
  BY <1>4, <1>5
<1> HIDE DEF longer
<1>7. /\ next \in Seq(ChatEntries) /\ Len(next) <= MaxChats
      /\ Len(longer) <= MaxChats => next = longer
  BY <1>6, NewestKeeps, WorkspaceAssumption
<1>8. ASSUME Len(list) < MaxChats, NEW i \in DOMAIN list
      PROVE  \E k \in DOMAIN next : next[k].id = list[i].id
  <2>1. Len(sorted) = Len(list) /\ Len(list) \in Nat /\ MaxChats \in Nat /\ Len(kept) \in Nat
    BY <1>1, <1>5, <1>8, WorkspaceAssumption
  <2>2. next = longer
    BY <1>3, <1>6, <1>7, <1>8, <2>1
  <2>3. list[i] \in ToSet(sorted) /\ list[i] \in ChatEntries
    BY <1>1, <1>8, <2>1 DEF ToSet
  <2>4. CASE list[i].id = c
    <3>1. Len(longer) \in DOMAIN longer /\ longer[Len(longer)].id = c
      BY <1>6, <2>1
    <3> QED BY <2>2, <2>4, <3>1
  <2>5. CASE list[i].id # c
    <3>1. list[i] \in S
      BY <2>3, <2>5 DEF S, ChatEntries
    <3>2. PICK k \in DOMAIN kept : kept[k] = list[i]
      BY <1>3, <2>3, <3>1 DEF ToSet
    <3> QED BY <1>6, <2>2, <3>2
  <2> QED BY <2>4, <2>5
<1>9. next = W!Newest(Append(W!Among(W!Sorted(list), [id : Chats \ {c}, at : Times]),
                             [id |-> c, at |-> when]), MaxChats)
  BY <1>2 DEF longer, sorted, S
<1> HIDE DEF next
<1> QED BY <1>7, <1>8, <1>9

\* An upload that was not refused lists what was listed and the batch, each once.
LEMMA UploadKeeps ==
  ASSUME NEW docs \in Seq(Documents), NEW batch \in Seq(Documents), IsInjective(batch),
         Len(docs) + Len(batch) <= MaxDocuments
  PROVE  LET next == W!Newest(Among(docs, Documents \ ToSet(batch)) \o batch, MaxDocuments)
         IN  /\ next \in Seq(Documents) /\ ToSet(next) = ToSet(docs) \cup ToSet(batch)
             /\ IsInjective(docs) => IsInjective(next)
<1> DEFINE S == Documents \ ToSet(batch)
           others == Among(docs, S)
           joined == others \o batch
<1>1. others \in Seq(Documents \cap S) /\ Len(others) <= Len(docs) /\ ToSet(others) = ToSet(docs) \cap S
      /\ (IsInjective(docs) => IsInjective(others))
  BY AmongFacts, AmongElements
<1> HIDE DEF others
<1>2. ToSet(docs) \subseteq Documents /\ Len(docs) \in Nat /\ Len(batch) \in Nat
  BY DEF ToSet
<1>3. others \in Seq(Documents) /\ Len(others) \in Nat
  BY <1>1
<1>4. /\ joined \in Seq(Documents) /\ Len(joined) = Len(others) + Len(batch)
      /\ \A i \in 1 .. Len(joined) : joined[i] = IF i <= Len(others) THEN others[i] ELSE batch[i - Len(others)]
  BY <1>3
<1>5. \A x \in ToSet(joined) : x \in ToSet(others) \cup ToSet(batch)
  <2> SUFFICES ASSUME NEW i \in 1 .. Len(joined) PROVE joined[i] \in ToSet(others) \cup ToSet(batch)
    BY <1>4 DEF ToSet
  <2>1. CASE i <= Len(others)
    BY <1>3, <1>4, <2>1 DEF ToSet
  <2>2. CASE ~(i <= Len(others))
    <3>1. i - Len(others) \in DOMAIN batch
      BY <1>2, <1>3, <1>4, <2>2
    <3> QED BY <1>4, <2>2, <3>1 DEF ToSet
  <2> QED BY <2>1, <2>2
<1>6. \A x \in ToSet(others) : x \in ToSet(joined)
  <2> SUFFICES ASSUME NEW i \in DOMAIN others PROVE others[i] \in ToSet(joined)
    BY DEF ToSet
  <2>1. i \in 1 .. Len(joined) /\ joined[i] = others[i] /\ DOMAIN joined = 1 .. Len(joined)
    BY <1>2, <1>3, <1>4
  <2> QED BY <2>1 DEF ToSet
<1>7. \A x \in ToSet(batch) : x \in ToSet(joined)
  <2> SUFFICES ASSUME NEW i \in DOMAIN batch PROVE batch[i] \in ToSet(joined)
    BY DEF ToSet
  <2>1. i + Len(others) \in 1 .. Len(joined) /\ joined[i + Len(others)] = batch[i] /\ DOMAIN joined = 1 .. Len(joined)
    BY <1>2, <1>3, <1>4
  <2> QED BY <2>1 DEF ToSet
<1>8. ToSet(joined) = ToSet(docs) \cup ToSet(batch)
  <2>1. ToSet(joined) = ToSet(others) \cup ToSet(batch)
    BY <1>5, <1>6, <1>7
  <2> QED BY <1>1, <1>2, <2>1
<1>9. ASSUME IsInjective(docs), NEW i \in 1 .. Len(joined), NEW j \in 1 .. Len(joined), joined[i] = joined[j]
      PROVE  i = j
  <2>1. \A k \in 1 .. Len(others) : others[k] \in S
    BY <1>1
  <2>2. \A k \in 1 .. Len(batch) : batch[k] \notin S
    BY DEF ToSet
  <2> HIDE DEF S
  <2>3. \A k, l \in 1 .. Len(others) : others[k] = others[l] => k = l
    BY <1>1, <1>3, <1>9 DEF IsInjective
  <2>4. \A k, l \in 1 .. Len(batch) : batch[k] = batch[l] => k = l
    BY DEF IsInjective
  <2>5. CASE i <= Len(others) /\ j <= Len(others)
    BY <1>3, <1>4, <1>9, <2>3, <2>5
  <2>6. CASE ~(i <= Len(others)) /\ ~(j <= Len(others))
    <3>1. i - Len(others) \in 1 .. Len(batch) /\ j - Len(others) \in 1 .. Len(batch)
      BY <1>2, <1>3, <1>4, <2>6
    <3>2. i - Len(others) = j - Len(others)
      BY <1>4, <1>9, <2>4, <2>6, <3>1
    <3> QED BY <1>2, <1>3, <1>4, <3>2
  <2>7. CASE i <= Len(others) /\ ~(j <= Len(others))
    <3>1. i \in 1 .. Len(others) /\ j - Len(others) \in 1 .. Len(batch)
      BY <1>2, <1>3, <1>4, <2>7
    <3> QED BY <1>4, <1>9, <2>1, <2>2, <2>7, <3>1
  <2>8. CASE ~(i <= Len(others)) /\ j <= Len(others)
    <3>1. j \in 1 .. Len(others) /\ i - Len(others) \in 1 .. Len(batch)
      BY <1>2, <1>3, <1>4, <2>8
    <3> QED BY <1>4, <1>9, <2>1, <2>2, <2>8, <3>1
  <2> QED BY <2>5, <2>6, <2>7, <2>8
<1>10. IsInjective(docs) => IsInjective(joined)
  BY <1>4, <1>9 DEF IsInjective
<1>11. W!Newest(joined, MaxDocuments) = joined
  <2>1. Len(joined) <= MaxDocuments
    BY <1>1, <1>2, <1>3, <1>4, WorkspaceAssumption
  <2> HIDE DEF joined
  <2> QED BY <1>4, <2>1, NewestKeeps, WorkspaceAssumption
<1> HIDE DEF joined
<1>12. W!Newest(joined, MaxDocuments) \in Seq(Documents)
       /\ ToSet(W!Newest(joined, MaxDocuments)) = ToSet(docs) \cup ToSet(batch)
       /\ (IsInjective(docs) => IsInjective(W!Newest(joined, MaxDocuments)))
  BY <1>4, <1>8, <1>10, <1>11
<1> QED BY <1>12 DEF joined, others, S

IdsOf(list) == {list[k].id : k \in DOMAIN list}

\* One artifact more or less, or one with another version.
Continues(list, new) ==
  /\ new \in Seq(Artifacts) /\ OneOfEach(new)
  /\ \E a : \A x : x # a => (x \in IdsOf(list) <=> x \in IdsOf(new))
  /\ \A k \in DOMAIN list, m \in DOMAIN new :
       list[k].id = new[m].id => IsPrefix(list[k].files, new[m].files)

LEMMA ArtifactFields ==
  ASSUME NEW x \in Artifacts
  PROVE  x.files \in Seq(Items) /\ x.id \in Items /\ x = [id |-> x.id, files |-> x.files]
  BY DEF Artifacts

LEMMA AppendIsPrefix ==
  ASSUME NEW X, NEW f \in Seq(X), NEW x \in X
  PROVE  IsPrefix(f, f) /\ IsPrefix(f, Append(f, x)) /\ Append(f, x) \in Seq(X)
<1>1. IsPrefix(f, f) /\ Append(f, x) \in Seq(X) /\ Len(Append(f, x)) = Len(f) + 1 /\ Len(f) \in Nat
  BY DEF IsPrefix
<1>2. \A i \in 1 .. Len(f) : Append(f, x)[i] = f[i]
  OBVIOUS
<1>3. SubSeq(f, 1, Len(f)) = SubSeq(Append(f, x), 1, Len(f))
  <2> DEFINE g == Append(f, x)
  <2> HIDE DEF g
  <2>1. g \in Seq(X) /\ \A i \in 1 .. Len(f) : g[i] = f[i]
    BY <1>1, <1>2 DEF g
  <2>2. SubSeq(f, 1, Len(f)) = SubSeq(g, 1, Len(f))
    BY <1>1, <2>1
  <2> QED BY <2>2 DEF g
<1> QED BY <1>1, <1>3 DEF IsPrefix

LEMMA RegisterContinues ==
  ASSUME NEW list \in Seq(Artifacts), OneOfEach(list), Len(list) < MaxItems,
         NEW i \in Items, i \notin IdsOf(list)
  PROVE  Continues(list, W!Stored(Append(list, [id |-> i, files |-> <<i>>])))
<1> DEFINE e == [id |-> i, files |-> <<i>>]
           new == Append(list, e)
<1>1. e \in Artifacts /\ e.id = i
  <2>1. <<i>> \in Seq(Items)
    OBVIOUS
  <2> QED BY <2>1 DEF Artifacts
<1> HIDE DEF e
<1>2. /\ new \in Seq(Artifacts) /\ Len(new) = Len(list) + 1 /\ Len(list) \in Nat
      /\ \A k \in 1 .. Len(list) : new[k] = list[k]
      /\ new[Len(list) + 1] = e
  BY <1>1
<1> HIDE DEF new
<1>3. DOMAIN list = 1 .. Len(list) /\ DOMAIN new = 1 .. Len(list) + 1
  BY <1>2
<1>4. W!Stored(new) = new
  BY <1>2, NewestKeeps, WorkspaceAssumption DEF W!Stored
<1>5. \A k \in 1 .. Len(list) : list[k].id # i /\ list[k] \in Artifacts
  BY <1>3 DEF IdsOf
<1>6. OneOfEach(new)
  <2> SUFFICES ASSUME NEW k \in DOMAIN new, NEW m \in DOMAIN new, new[k].id = new[m].id PROVE k = m
    BY DEF OneOfEach
  <2>1. CASE k \in 1 .. Len(list) /\ m \in 1 .. Len(list)
    BY <1>2, <1>3, <2>1 DEF OneOfEach
  <2>2. CASE k = Len(list) + 1 \/ m = Len(list) + 1
    BY <1>1, <1>2, <1>3, <1>5, <2>2
  <2> QED BY <1>2, <1>3, <2>1, <2>2
<1>7. \A x : x # i => (x \in IdsOf(list) <=> x \in IdsOf(new))
  BY <1>1, <1>2, <1>3 DEF IdsOf
<1>8. ASSUME NEW k \in DOMAIN list, NEW m \in DOMAIN new, list[k].id = new[m].id
      PROVE  IsPrefix(list[k].files, new[m].files)
  <2>1. m \in 1 .. Len(list) /\ new[m] = list[m]
    BY <1>1, <1>2, <1>3, <1>5, <1>8
  <2>2. list[k] = new[m]
    BY <1>3, <1>8, <2>1 DEF OneOfEach
  <2>3. new[m].files \in Seq(Items)
    <3>1. new[m] \in Artifacts
      BY <1>2, <1>3
    <3> QED BY <3>1, ArtifactFields
  <2> QED BY <2>2, <2>3 DEF IsPrefix
<1>9. Continues(list, new)
  BY <1>2, <1>6, <1>7, <1>8 DEF Continues
<1> QED BY <1>4, <1>9 DEF new, e

LEMMA VersionContinues ==
  ASSUME NEW list \in Seq(Artifacts), OneOfEach(list), NEW a \in Items, NEW i \in Items
  PROVE  Continues(list, [k \in DOMAIN list |->
                            IF list[k].id = a /\ Len(list[k].files) < MaxVersions
                            THEN W!WithVersion(list[k], i) ELSE list[k]])
<1> DEFINE new == [k \in DOMAIN list |->
                            IF list[k].id = a /\ Len(list[k].files) < MaxVersions
                            THEN W!WithVersion(list[k], i) ELSE list[k]]
<1>1. \A x \in Artifacts : /\ W!WithVersion(x, i) \in Artifacts /\ W!WithVersion(x, i).id = x.id
                           /\ IsPrefix(x.files, W!WithVersion(x, i).files) /\ IsPrefix(x.files, x.files)
  <2> TAKE x \in Artifacts
  <2>1. x.files \in Seq(Items) /\ x.id \in Items
    BY ArtifactFields
  <2>2. IsPrefix(x.files, x.files) /\ IsPrefix(x.files, Append(x.files, i)) /\ Append(x.files, i) \in Seq(Items)
    BY <2>1, AppendIsPrefix
  <2>3. W!WithVersion(x, i) = [id |-> x.id, files |-> Append(x.files, i)]
    <3>1. PICK ident, listed : x = [id |-> ident, files |-> listed]
      BY ArtifactFields
    <3>2. W!WithVersion(x, i) = [x EXCEPT !.files = Append(x.files, i)]
      BY DEF W!WithVersion
    <3> QED BY <3>1, <3>2
  <2> QED BY <2>1, <2>2, <2>3 DEF Artifacts
<1>2. \A k \in DOMAIN list : /\ new[k] \in Artifacts /\ new[k].id = list[k].id
                             /\ IsPrefix(list[k].files, new[k].files)
  <2> TAKE k \in DOMAIN list
  <2>1. list[k] \in Artifacts
    OBVIOUS
  <2> QED BY <1>1, <2>1
<1>3. DOMAIN new = DOMAIN list /\ DOMAIN list = 1 .. Len(list) /\ Len(list) \in Nat
  OBVIOUS
<1> HIDE DEF new
<1>4. new \in Seq(Artifacts)
  <2>1. new \in [1 .. Len(list) -> Artifacts]
    <3>1. new = [k \in 1 .. Len(list) |-> new[k]]
      BY <1>3 DEF new
    <3> QED BY <1>2, <1>3, <3>1
  <2> QED BY <1>3, <2>1
<1>5. OneOfEach(new)
  BY <1>2, <1>3 DEF OneOfEach
<1>6. \A x : x \in IdsOf(list) <=> x \in IdsOf(new)
  BY <1>2, <1>3 DEF IdsOf
<1>7. \A k \in DOMAIN list, m \in DOMAIN new :
        list[k].id = new[m].id => IsPrefix(list[k].files, new[m].files)
  BY <1>2, <1>3 DEF OneOfEach
<1>8. Continues(list, new)
  BY <1>4, <1>5, <1>6, <1>7 DEF Continues
<1> QED BY <1>8 DEF new

LEMMA UnregisterContinues ==
  ASSUME NEW list \in Seq(Artifacts), OneOfEach(list), NEW a
  PROVE  Continues(list, Among(list, [id : Items \ {a}, files : Seq(Items)]))
<1> DEFINE S == [id : Items \ {a}, files : Seq(Items)]
           new == Among(list, S)
<1>1. new \in Seq(Artifacts \cap S) /\ \E h : Embeds(h, new, list, S)
  BY AmongFacts
<1>2. ToSet(new) = ToSet(list) \cap S
  BY AmongElements
<1> HIDE DEF new
<1>3. \A x \in Artifacts : x \in S <=> x.id # a
  BY DEF Artifacts
<1> HIDE DEF S
<1>4. PICK h : Embeds(h, new, list, S)
  BY <1>1
<1>5. /\ DOMAIN new = 1 .. Len(new) /\ DOMAIN list = 1 .. Len(list) /\ new \in Seq(Artifacts)
      /\ Len(new) \in Nat /\ Len(list) \in Nat
  BY <1>1
<1>6. \A k \in DOMAIN new : h[k] \in DOMAIN list /\ new[k] = list[h[k]]
  BY <1>4, <1>5 DEF Embeds
<1>7. OneOfEach(new)
  <2> SUFFICES ASSUME NEW k \in DOMAIN new, NEW m \in DOMAIN new, new[k].id = new[m].id, k # m PROVE FALSE
    BY DEF OneOfEach
  <2>1. h[k] = h[m]
    BY <1>6 DEF OneOfEach
  <2>2. k < m \/ m < k
    BY <1>5
  <2>3. h[k] < h[m] \/ h[m] < h[k]
    BY <1>4, <1>5, <2>2 DEF Embeds
  <2>4. h[k] \in Int /\ h[m] \in Int
    BY <1>5, <1>6
  <2> QED BY <2>1, <2>3, <2>4
<1>8. \A x : x # a => (x \in IdsOf(list) <=> x \in IdsOf(new))
  <2> SUFFICES ASSUME NEW x, x # a PROVE x \in IdsOf(list) <=> x \in IdsOf(new)
    OBVIOUS
  <2>1. ASSUME x \in IdsOf(list) PROVE x \in IdsOf(new)
    <3>1. PICK i \in DOMAIN list : list[i].id = x
      BY <2>1 DEF IdsOf
    <3>2. list[i] \in S /\ list[i] \in ToSet(list)
      BY <1>3, <1>5, <3>1 DEF ToSet
    <3>3. PICK k \in DOMAIN new : new[k] = list[i]
      BY <1>2, <3>2 DEF ToSet
    <3> QED BY <3>1, <3>3 DEF IdsOf
  <2>2. ASSUME x \in IdsOf(new) PROVE x \in IdsOf(list)
    BY <1>6, <2>2 DEF IdsOf
  <2> QED BY <2>1, <2>2
<1>9. ASSUME NEW k \in DOMAIN list, NEW m \in DOMAIN new, list[k].id = new[m].id
      PROVE  IsPrefix(list[k].files, new[m].files)
  <2>1. list[k] = new[m]
    BY <1>6, <1>9 DEF OneOfEach
  <2>2. new[m].files \in Seq(Items)
    <3>1. new[m] \in Artifacts
      BY <1>5
    <3> QED BY <3>1, ArtifactFields
  <2> QED BY <2>1, <2>2 DEF IsPrefix
<1>10. Continues(list, new)
  BY <1>5, <1>7, <1>8, <1>9 DEF Continues
<1> QED BY <1>10 DEF new, S

LEMMA ContinuesItself ==
  ASSUME NEW list \in Seq(Artifacts), OneOfEach(list)
  PROVE  Continues(list, list)
<1>1. ASSUME NEW k \in DOMAIN list PROVE IsPrefix(list[k].files, list[k].files)
  <2>1. list[k] \in Artifacts
    OBVIOUS
  <2>2. list[k].files \in Seq(Items)
    BY <2>1, ArtifactFields
  <2> QED BY <2>2 DEF IsPrefix
<1>2. \A k \in DOMAIN list, m \in DOMAIN list :
        list[k].id = list[m].id => IsPrefix(list[k].files, list[m].files)
  BY <1>1 DEF OneOfEach
<1> QED BY <1>2 DEF Continues

\* Of a project whose state is the same before and after a step: at most one saved
\* item more or less, at most one artifact or version, and so on.
Grown(s, s2, a, a2, docs, docs2, c, c2) ==
  /\ \E i : \A x : x # i => (x \in ToSet(s) <=> x \in ToSet(s2))
  /\ Continues(a, a2)
  /\ ToSet(docs) \subseteq ToSet(docs2)
  /\ IdsOf(c) \subseteq IdsOf(c2) \/ Len(c) = MaxChats

AllGrow ==
  \A p \in Projects : disk'[p] = disk[p] =>
    Grown(saved[p], saved'[p], artifacts[p], artifacts'[p], documents[p], documents'[p],
          chats[p], chats'[p])

LEMMA StillGrown ==
  ASSUME NEW s, NEW a \in Seq(Artifacts), OneOfEach(a), NEW docs, NEW c
  PROVE  Grown(s, s, a, a, docs, docs, c, c)
  BY ContinuesItself DEF Grown

\* A step that touches one project.
LEMMA StepOfOne ==
  ASSUME SpacesInv, NEW p \in Projects,
         NEW d, NEW c, NEW s, NEW o, NEW a, NEW docs, NEW t, NEW stray,
         disk' = [disk EXCEPT ![p] = d], chats' = [chats EXCEPT ![p] = c],
         saved' = [saved EXCEPT ![p] = s], outputs' = [outputs EXCEPT ![p] = o],
         artifacts' = [artifacts EXCEPT ![p] = a], documents' = [documents EXCEPT ![p] = docs],
         texts' = [texts EXCEPT ![p] = t], strays' = [strays EXCEPT ![p] = stray],
         Sound(d, c, s, o, a, docs, t, stray),
         d = disk[p] => Grown(saved[p], s, artifacts[p], a, documents[p], docs, chats[p], c)
  PROVE  SpacesInv' /\ AllGrow
<1>1. SpacesType /\ \A q \in Projects : Sound(disk[q], chats[q], saved[q], outputs[q], artifacts[q],
                                               documents[q], texts[q], strays[q])
  BY DEF SpacesInv
<1>2. SpacesType'
  BY <1>1 DEF SpacesType, Sound
<1>3. \A q \in Projects : q # p =>
        /\ disk'[q] = disk[q] /\ chats'[q] = chats[q] /\ saved'[q] = saved[q] /\ outputs'[q] = outputs[q]
        /\ artifacts'[q] = artifacts[q] /\ documents'[q] = documents[q]
        /\ texts'[q] = texts[q] /\ strays'[q] = strays[q]
  BY <1>1 DEF SpacesType
<1>4. /\ disk'[p] = d /\ chats'[p] = c /\ saved'[p] = s /\ outputs'[p] = o /\ artifacts'[p] = a
      /\ documents'[p] = docs /\ texts'[p] = t /\ strays'[p] = stray
  BY <1>1 DEF SpacesType
<1>5. ASSUME NEW q \in Projects
      PROVE  Sound(disk'[q], chats'[q], saved'[q], outputs'[q], artifacts'[q],
                   documents'[q], texts'[q], strays'[q])
  <2>1. CASE q = p
    BY <1>4, <2>1
  <2>2. CASE q # p
    BY <1>1, <1>3, <2>2
  <2> QED BY <2>1, <2>2
<1>6. ASSUME NEW q \in Projects, disk'[q] = disk[q]
      PROVE  Grown(saved[q], saved'[q], artifacts[q], artifacts'[q], documents[q], documents'[q],
                   chats[q], chats'[q])
  <2>1. CASE q = p
    BY <1>4, <1>6, <2>1
  <2>2. CASE q # p
    <3>1. artifacts[q] \in Seq(Artifacts) /\ OneOfEach(artifacts[q])
      BY <1>1 DEF Sound
    <3>2. Grown(saved[q], saved[q], artifacts[q], artifacts[q], documents[q], documents[q],
                chats[q], chats[q])
      BY <3>1, StillGrown
    <3> QED BY <1>3, <2>2, <3>2
  <2> QED BY <2>1, <2>2
<1> QED BY <1>2, <1>5, <1>6 DEF SpacesInv, AllGrow

LEMMA SameExcept ==
  ASSUME SpacesType, NEW p \in Projects
  PROVE  /\ disk = [disk EXCEPT ![p] = disk[p]] /\ chats = [chats EXCEPT ![p] = chats[p]]
         /\ saved = [saved EXCEPT ![p] = saved[p]] /\ outputs = [outputs EXCEPT ![p] = outputs[p]]
         /\ artifacts = [artifacts EXCEPT ![p] = artifacts[p]]
         /\ documents = [documents EXCEPT ![p] = documents[p]]
         /\ texts = [texts EXCEPT ![p] = texts[p]] /\ strays = [strays EXCEPT ![p] = strays[p]]
  BY DEF SpacesType

LEMMA SavedKeeps ==
  ASSUME NEW list \in Seq(Items), NEW i \in Items, Len(list) < MaxItems
  PROVE  /\ W!Newest(Append(list, i), MaxItems) \in Seq(Items)
         /\ \A x : x # i => (x \in ToSet(list) <=> x \in ToSet(W!Newest(Append(list, i), MaxItems)))
<1> DEFINE new == Append(list, i)
<1>1. /\ new \in Seq(Items) /\ Len(new) = Len(list) + 1 /\ Len(list) \in Nat
      /\ \A k \in 1 .. Len(list) : new[k] = list[k]
      /\ new[Len(list) + 1] = i
  OBVIOUS
<1> HIDE DEF new
<1>2. W!Newest(new, MaxItems) = new
  BY <1>1, NewestKeeps, WorkspaceAssumption
<1>3. DOMAIN list = 1 .. Len(list) /\ DOMAIN new = 1 .. Len(list) + 1
  BY <1>1
<1>4. \A x : x # i => (x \in ToSet(list) <=> x \in ToSet(new))
  BY <1>1, <1>3 DEF ToSet
<1> QED BY <1>1, <1>2, <1>4 DEF new

LEMMA SpacesStep == ASSUME SpacesInv, W!Next PROVE SpacesInv' /\ AllGrow
<1>1. SpacesType
  BY DEF SpacesInv
<1>2. ASSUME NEW p \in Projects
      PROVE  /\ Sound(disk[p], chats[p], saved[p], outputs[p], artifacts[p], documents[p], texts[p], strays[p])
             /\ Grown(saved[p], saved[p], artifacts[p], artifacts[p], documents[p], documents[p],
                      chats[p], chats[p])
  <2>1. Sound(disk[p], chats[p], saved[p], outputs[p], artifacts[p], documents[p], texts[p], strays[p])
    BY DEF SpacesInv
  <2>2. artifacts[p] \in Seq(Artifacts) /\ OneOfEach(artifacts[p])
    BY <2>1 DEF Sound
  <2> QED BY <2>1, <2>2, StillGrown
<1>3. ASSUME NEW p \in Projects, NEW q \in {"none", "gone"}, p \in W!Listed
      PROVE  disk[p] # q
  BY <1>3 DEF W!Listed
<1>8. ASSUME NEW p \in Projects, W!Create(p)
      PROVE  SpacesInv' /\ AllGrow
  <2>1. /\ disk' = [disk EXCEPT ![p] = "there"] /\ chats' = [chats EXCEPT ![p] = chats[p]]
        /\ saved' = [saved EXCEPT ![p] = saved[p]] /\ outputs' = [outputs EXCEPT ![p] = outputs[p]]
        /\ artifacts' = [artifacts EXCEPT ![p] = artifacts[p]] /\ documents' = [documents EXCEPT ![p] = documents[p]]
        /\ texts' = [texts EXCEPT ![p] = texts[p]] /\ strays' = [strays EXCEPT ![p] = strays[p]]
    BY <1>1, <1>8, SameExcept DEF W!Create, W!contents, W!history
  <2>2. Sound("there", chats[p], saved[p], outputs[p], artifacts[p], documents[p], texts[p], strays[p])
    BY <1>2, <1>8 DEF W!Create, Sound, IsInjective, ToSet
  <2>3. "there" = disk[p] =>
           Grown(saved[p], saved[p], artifacts[p], artifacts[p], documents[p], documents[p],
                 chats[p], chats[p])
    BY <1>2
  <2> QED BY <2>1, <2>2, <2>3, StepOfOne
<1>9. ASSUME NEW p \in Projects, W!Delete(p)
      PROVE  SpacesInv' /\ AllGrow
  <2>1. /\ disk' = [disk EXCEPT ![p] = "gone"] /\ chats' = [chats EXCEPT ![p] = <<>>]
        /\ saved' = [saved EXCEPT ![p] = <<>>] /\ outputs' = [outputs EXCEPT ![p] = <<>>]
        /\ artifacts' = [artifacts EXCEPT ![p] = <<>>] /\ documents' = [documents EXCEPT ![p] = <<>>]
        /\ texts' = [texts EXCEPT ![p] = {}] /\ strays' = [strays EXCEPT ![p] = {}]
    BY <1>1, <1>9, SameExcept DEF W!Delete, W!contents, W!history
  <2>2. Sound("gone", <<>>, <<>>, <<>>, <<>>, <<>>, {}, {})
    BY WorkspaceAssumption DEF Sound, OneOfEach
  <2>3. "gone" = disk[p] =>
           Grown(saved[p], <<>>, artifacts[p], <<>>, documents[p], <<>>, chats[p], <<>>)
    <3> SUFFICES ASSUME disk[p] = "gone"
                 PROVE  Grown(saved[p], <<>>, artifacts[p], <<>>, documents[p], <<>>,
                              chats[p], <<>>)
      OBVIOUS
    <3>1. saved[p] = <<>> /\ artifacts[p] = <<>> /\ documents[p] = <<>> /\ chats[p] = <<>>
      BY <1>2 DEF Sound
    <3> QED BY <1>2, <3>1
  <2> QED BY <2>1, <2>2, <2>3, StepOfOne
<1>10. ASSUME NEW p \in Projects, NEW left, W!DeleteCutOff(p, left)
      PROVE  SpacesInv' /\ AllGrow
  <2> DEFINE d == IF "project" \in left THEN "halved" ELSE "torn"
             c == IF "project" \in left THEN chats[p] ELSE <<>>
             s == IF "saved" \in left THEN saved[p] ELSE <<>>
             o == IF "project" \in left THEN outputs[p] ELSE <<>>
             a == IF "artifacts" \in left THEN artifacts[p] ELSE <<>>
             docs == IF "project" \in left THEN documents[p] ELSE <<>>
  <2>1. /\ disk' = [disk EXCEPT ![p] = d] /\ chats' = [chats EXCEPT ![p] = c]
        /\ saved' = [saved EXCEPT ![p] = s] /\ outputs' = [outputs EXCEPT ![p] = o]
        /\ artifacts' = [artifacts EXCEPT ![p] = a] /\ documents' = [documents EXCEPT ![p] = docs]
        /\ texts' = [texts EXCEPT ![p] = {}] /\ strays' = [strays EXCEPT ![p] = {}]
    BY <1>1, <1>10, SameExcept DEF W!DeleteCutOff, W!contents, W!history
  <2>2. Sound(d, c, s, o, a, docs, {}, {})
    BY <1>2, <1>10, WorkspaceAssumption DEF Sound, OneOfEach
  <2>3. d = disk[p] =>
           Grown(saved[p], s, artifacts[p], a, documents[p], docs, chats[p], c)
    BY <1>10 DEF W!DeleteCutOff
  <2> HIDE DEF d, c, s, o, a, docs
  <2> QED BY <2>1, <2>2, <2>3, StepOfOne
<1>11. ASSUME NEW p \in Projects, NEW c \in Chats, NEW time \in Times, W!Upsert(p, c, time)
      PROVE  SpacesInv' /\ AllGrow
  <2> DEFINE next == W!Newest(Append(W!Among(W!Sorted(chats[p]), [id : Chats \ {c}, at : Times]),
                                     [id |-> c, at |-> time]), MaxChats)
  <2>1. chats[p] \in Seq(ChatEntries) /\ Len(chats[p]) <= MaxChats
    BY <1>2 DEF Sound
  <2>2. /\ next \in Seq(ChatEntries) /\ Len(next) <= MaxChats
        /\ Len(chats[p]) < MaxChats =>
             \A i \in DOMAIN chats[p] : \E k \in DOMAIN next : next[k].id = chats[p][i].id
    BY <2>1, UpsertKeeps
  <2>3. disk[p] \notin {"none", "gone"}
    BY <1>11 DEF W!Upsert, W!Listed
  <2>4. /\ disk' = [disk EXCEPT ![p] = disk[p]] /\ chats' = [chats EXCEPT ![p] = next]
        /\ saved' = [saved EXCEPT ![p] = saved[p]] /\ outputs' = [outputs EXCEPT ![p] = outputs[p]]
        /\ artifacts' = [artifacts EXCEPT ![p] = artifacts[p]] /\ documents' = [documents EXCEPT ![p] = documents[p]]
        /\ texts' = [texts EXCEPT ![p] = texts[p]] /\ strays' = [strays EXCEPT ![p] = strays[p]]
    BY <1>1, <1>11, SameExcept DEF W!Upsert, W!contents, W!history
  <2>5. Sound(disk[p], next, saved[p], outputs[p], artifacts[p], documents[p], texts[p], strays[p])
    <3> HIDE DEF next
    <3> QED BY <1>2, <2>2, <2>3 DEF Sound
  <2>6. disk[p] = disk[p] =>
           Grown(saved[p], saved[p], artifacts[p], artifacts[p], documents[p], documents[p],
                 chats[p], next)
    <3> HIDE DEF next
    <3>1. Len(chats[p]) \in Nat /\ MaxChats \in Nat
      BY <2>1, WorkspaceAssumption
    <3>2. IdsOf(chats[p]) \subseteq IdsOf(next) \/ Len(chats[p]) = MaxChats
      BY <2>1, <2>2, <3>1 DEF IdsOf
    <3> QED BY <1>2, <3>2 DEF Grown
  <2> HIDE DEF next
  <2> QED BY <2>4, <2>5, <2>6, StepOfOne
<1>12. ASSUME NEW p \in Projects, NEW i \in Items, W!Save(p, i)
      PROVE  SpacesInv' /\ AllGrow
  <2> DEFINE next == W!Newest(Append(saved[p], i), MaxItems)
  <2>1. saved[p] \in Seq(Items) /\ Len(saved[p]) < MaxItems /\ disk[p] \notin {"none", "gone"}
    BY <1>2, <1>12 DEF Sound, W!Save, W!Listed
  <2>2. next \in Seq(Items) /\ \A x : x # i => (x \in ToSet(saved[p]) <=> x \in ToSet(next))
    BY <2>1, SavedKeeps
  <2>3. /\ disk' = [disk EXCEPT ![p] = disk[p]] /\ chats' = [chats EXCEPT ![p] = chats[p]]
        /\ saved' = [saved EXCEPT ![p] = next] /\ outputs' = [outputs EXCEPT ![p] = outputs[p]]
        /\ artifacts' = [artifacts EXCEPT ![p] = artifacts[p]] /\ documents' = [documents EXCEPT ![p] = documents[p]]
        /\ texts' = [texts EXCEPT ![p] = texts[p]] /\ strays' = [strays EXCEPT ![p] = strays[p]]
    BY <1>1, <1>12, SameExcept DEF W!Save, W!contents, W!history
  <2>4. Sound(disk[p], chats[p], next, outputs[p], artifacts[p], documents[p], texts[p], strays[p])
    <3> HIDE DEF next
    <3> QED BY <1>2, <2>1, <2>2 DEF Sound
  <2>5. disk[p] = disk[p] =>
           Grown(saved[p], next, artifacts[p], artifacts[p], documents[p], documents[p],
                 chats[p], chats[p])
    <3> HIDE DEF next
    <3> QED BY <1>2, <2>2 DEF Grown
  <2> HIDE DEF next
  <2> QED BY <2>3, <2>4, <2>5, StepOfOne
<1>13. ASSUME NEW p \in Projects, NEW i \in Items, W!Unsave(p, i)
      PROVE  SpacesInv' /\ AllGrow
  <2> DEFINE next == W!Among(saved[p], Items \ {i})
  <2>1. saved[p] \in Seq(Items) /\ disk[p] \notin {"none", "gone"}
    BY <1>2, <1>13 DEF Sound, W!Unsave, W!ToSet
  <2>2. next = Among(saved[p], Items \ {i})
    BY SpacesAmong
  <2>3. /\ Among(saved[p], Items \ {i}) \in Seq(Items \cap (Items \ {i}))
        /\ ToSet(Among(saved[p], Items \ {i})) = ToSet(saved[p]) \cap (Items \ {i})
    BY <2>1, AmongFacts, AmongElements
  <2>4. ToSet(saved[p]) \subseteq Items
    BY <2>1 DEF ToSet
  <2>5. next \in Seq(Items) /\ \A x : x # i => (x \in ToSet(saved[p]) <=> x \in ToSet(next))
    <3> HIDE DEF next
    <3>1. next \in Seq(Items \cap (Items \ {i}))
      BY <2>2, <2>3
    <3>2. next \in Seq(Items)
      BY <3>1
    <3>3. ToSet(next) = ToSet(saved[p]) \cap (Items \ {i})
      BY <2>2, <2>3
    <3> QED BY <2>4, <3>2, <3>3
  <2>6. /\ disk' = [disk EXCEPT ![p] = disk[p]] /\ chats' = [chats EXCEPT ![p] = chats[p]]
        /\ saved' = [saved EXCEPT ![p] = next] /\ outputs' = [outputs EXCEPT ![p] = outputs[p]]
        /\ artifacts' = [artifacts EXCEPT ![p] = artifacts[p]] /\ documents' = [documents EXCEPT ![p] = documents[p]]
        /\ texts' = [texts EXCEPT ![p] = texts[p]] /\ strays' = [strays EXCEPT ![p] = strays[p]]
    BY <1>1, <1>13, SameExcept DEF W!Unsave, W!contents, W!history
  <2>7. Sound(disk[p], chats[p], next, outputs[p], artifacts[p], documents[p], texts[p], strays[p])
    <3> HIDE DEF next
    <3> QED BY <1>2, <2>1, <2>5 DEF Sound
  <2>8. disk[p] = disk[p] =>
           Grown(saved[p], next, artifacts[p], artifacts[p], documents[p], documents[p],
                 chats[p], chats[p])
    <3> HIDE DEF next
    <3> QED BY <1>2, <2>5 DEF Grown
  <2> HIDE DEF next
  <2> QED BY <2>6, <2>7, <2>8, StepOfOne
<1>14. ASSUME NEW p \in Projects, NEW i \in Items, W!Register(p, i)
      PROVE  SpacesInv' /\ AllGrow
  <2> DEFINE next == W!Stored(Append(artifacts[p], [id |-> i, files |-> <<i>>]))
  <2>1. /\ artifacts[p] \in Seq(Artifacts) /\ OneOfEach(artifacts[p])
        /\ disk[p] \notin {"none", "gone"}
    BY <1>2, <1>14 DEF Sound, W!Register, W!Accepts, W!Listed, W!Ids
  <2>2. Continues(artifacts[p], next)
    <3>1. Len(artifacts[p]) < MaxItems /\ i \notin IdsOf(artifacts[p])
      BY <1>14 DEF W!Register, W!Accepts, W!Ids, IdsOf
    <3> QED BY <2>1, <3>1, RegisterContinues
  <2>3. /\ disk' = [disk EXCEPT ![p] = disk[p]] /\ chats' = [chats EXCEPT ![p] = chats[p]]
        /\ saved' = [saved EXCEPT ![p] = saved[p]] /\ outputs' = [outputs EXCEPT ![p] = outputs[p]]
        /\ artifacts' = [artifacts EXCEPT ![p] = next] /\ documents' = [documents EXCEPT ![p] = documents[p]]
        /\ texts' = [texts EXCEPT ![p] = texts[p]] /\ strays' = [strays EXCEPT ![p] = strays[p]]
    BY <1>1, <1>14, SameExcept DEF W!Register, W!Accepts, W!contents, W!history
  <2>4. Sound(disk[p], chats[p], saved[p], outputs[p], next, documents[p], texts[p], strays[p])
    <3> HIDE DEF next
    <3> QED BY <1>2, <2>1, <2>2 DEF Sound, Continues
  <2>5. disk[p] = disk[p] =>
           Grown(saved[p], saved[p], artifacts[p], next, documents[p], documents[p],
                 chats[p], chats[p])
    <3> HIDE DEF next
    <3> QED BY <1>2, <2>2 DEF Grown
  <2> HIDE DEF next
  <2> QED BY <2>3, <2>4, <2>5, StepOfOne
<1>15. ASSUME NEW p \in Projects, NEW b \in Items, NEW i \in Items, W!AddVersion(p, b, i)
      PROVE  SpacesInv' /\ AllGrow
  <2> DEFINE next == [k \in DOMAIN artifacts[p] |->
                       IF artifacts[p][k].id = b /\ Len(artifacts[p][k].files) < MaxVersions
                       THEN W!WithVersion(artifacts[p][k], i) ELSE artifacts[p][k]]
  <2>1. /\ artifacts[p] \in Seq(Artifacts) /\ OneOfEach(artifacts[p])
        /\ disk[p] \notin {"none", "gone"}
    BY <1>2, <1>15 DEF Sound, W!AddVersion, W!Listed, W!Ids
  <2>2. Continues(artifacts[p], next)
    BY <2>1, VersionContinues
  <2>3. /\ disk' = [disk EXCEPT ![p] = disk[p]] /\ chats' = [chats EXCEPT ![p] = chats[p]]
        /\ saved' = [saved EXCEPT ![p] = saved[p]] /\ outputs' = [outputs EXCEPT ![p] = outputs[p]]
        /\ artifacts' = [artifacts EXCEPT ![p] = next] /\ documents' = [documents EXCEPT ![p] = documents[p]]
        /\ texts' = [texts EXCEPT ![p] = texts[p]] /\ strays' = [strays EXCEPT ![p] = strays[p]]
    BY <1>1, <1>15, SameExcept DEF W!AddVersion, W!contents, W!history
  <2>4. Sound(disk[p], chats[p], saved[p], outputs[p], next, documents[p], texts[p], strays[p])
    <3> HIDE DEF next
    <3> QED BY <1>2, <2>1, <2>2 DEF Sound, Continues
  <2>5. disk[p] = disk[p] =>
           Grown(saved[p], saved[p], artifacts[p], next, documents[p], documents[p],
                 chats[p], chats[p])
    <3> HIDE DEF next
    <3> QED BY <1>2, <2>2 DEF Grown
  <2> HIDE DEF next
  <2> QED BY <2>3, <2>4, <2>5, StepOfOne
<1>16. ASSUME NEW p \in Projects, NEW b, W!Unregister(p, b)
      PROVE  SpacesInv' /\ AllGrow
  <2> DEFINE next == W!Among(artifacts[p], [id : Items \ {b}, files : Seq(Items)])
  <2>1. /\ artifacts[p] \in Seq(Artifacts) /\ OneOfEach(artifacts[p])
        /\ disk[p] \notin {"none", "gone"}
    BY <1>2, <1>16 DEF Sound, W!Unregister, W!Listed, W!Ids
  <2>2. Continues(artifacts[p], next)
    <3>1. next = Among(artifacts[p], [id : Items \ {b}, files : Seq(Items)])
      BY SpacesAmong
    <3> QED BY <2>1, <3>1, UnregisterContinues
  <2>3. /\ disk' = [disk EXCEPT ![p] = disk[p]] /\ chats' = [chats EXCEPT ![p] = chats[p]]
        /\ saved' = [saved EXCEPT ![p] = saved[p]] /\ outputs' = [outputs EXCEPT ![p] = outputs[p]]
        /\ artifacts' = [artifacts EXCEPT ![p] = next] /\ documents' = [documents EXCEPT ![p] = documents[p]]
        /\ texts' = [texts EXCEPT ![p] = texts[p]] /\ strays' = [strays EXCEPT ![p] = strays[p]]
    BY <1>1, <1>16, SameExcept DEF W!Unregister, W!contents, W!history
  <2>4. Sound(disk[p], chats[p], saved[p], outputs[p], next, documents[p], texts[p], strays[p])
    <3> HIDE DEF next
    <3> QED BY <1>2, <2>1, <2>2 DEF Sound, Continues
  <2>5. disk[p] = disk[p] =>
           Grown(saved[p], saved[p], artifacts[p], next, documents[p], documents[p],
                 chats[p], chats[p])
    <3> HIDE DEF next
    <3> QED BY <1>2, <2>2 DEF Grown
  <2> HIDE DEF next
  <2> QED BY <2>3, <2>4, <2>5, StepOfOne
<1>17. ASSUME NEW p \in Projects, NEW batch \in Seq(Documents), NEW readable, IsInjective(batch), W!Upload(p, batch, readable)
      PROVE  SpacesInv' /\ AllGrow
  <2> DEFINE part == W!ToSet(SubSeq(batch, 1, readable))
             next == W!Newest(W!Others(p, batch) \o batch, MaxDocuments)
             whole == readable = Len(batch)
             docs == IF whole THEN next ELSE documents[p]
             t == texts[p] \cup part
             stray == IF whole THEN strays[p] \ W!ToSet(batch)
                      ELSE strays[p] \cup (part \ W!ToSet(documents[p]))
  <2>1. /\ documents[p] \in Seq(Documents) /\ texts[p] \in SUBSET Documents /\ strays[p] \in SUBSET Documents
        /\ disk[p] \notin {"none", "gone"} /\ Len(documents[p]) + Len(batch) <= MaxDocuments
        /\ readable \in 0 .. Len(batch)
        /\ disk[p] = "there" => /\ IsInjective(documents[p]) /\ ToSet(documents[p]) \subseteq texts[p]
                                /\ texts[p] \ ToSet(documents[p]) = strays[p]
    BY <1>2, <1>17 DEF Sound, W!Upload, W!Listed, W!Fits
  <2>2. W!Others(p, batch) = Among(documents[p], Documents \ ToSet(batch))
    BY SpacesAmong DEF W!Others, W!ToSet, ToSet
  <2>3. /\ next \in Seq(Documents) /\ ToSet(next) = ToSet(documents[p]) \cup ToSet(batch)
        /\ IsInjective(documents[p]) => IsInjective(next)
    BY <1>17, <2>1, <2>2, UploadKeeps
  <2>4. ToSet(batch) \subseteq Documents /\ part \subseteq ToSet(batch) /\ (whole => part = ToSet(batch))
    <3>1. Len(batch) \in Nat /\ DOMAIN batch = 1 .. Len(batch)
      OBVIOUS
    <3>2. part = {batch[k] : k \in 1 .. readable}
      <4> DEFINE front == SubSeq(batch, 1, readable)
      <4>1. DOMAIN front = 1 .. readable /\ \A k \in 1 .. readable : front[k] = batch[k]
        BY <2>1, <3>1
      <4>2. part = {front[k] : k \in DOMAIN front}
        BY DEF W!ToSet
      <4> HIDE DEF front, part
      <4> QED BY <4>1, <4>2
    <3> QED BY <2>1, <3>1, <3>2 DEF ToSet
  <2>5. W!ToSet(batch) = ToSet(batch) /\ W!ToSet(documents[p]) = ToSet(documents[p])
    BY DEF W!ToSet, ToSet
  <2>6. /\ disk' = [disk EXCEPT ![p] = disk[p]] /\ chats' = [chats EXCEPT ![p] = chats[p]]
        /\ saved' = [saved EXCEPT ![p] = saved[p]] /\ outputs' = [outputs EXCEPT ![p] = outputs[p]]
        /\ artifacts' = [artifacts EXCEPT ![p] = artifacts[p]] /\ documents' = [documents EXCEPT ![p] = docs]
        /\ texts' = [texts EXCEPT ![p] = t] /\ strays' = [strays EXCEPT ![p] = stray]
    BY <1>1, <1>17, SameExcept DEF W!Upload, W!Others, W!contents, W!history
  <2>7. Sound(disk[p], chats[p], saved[p], outputs[p], artifacts[p], docs, t, stray)
    <3> HIDE DEF part, next, whole
    <3>1. docs \in Seq(Documents) /\ t \in SUBSET Documents /\ stray \in SUBSET Documents
      BY <2>1, <2>3, <2>4
    <3>2. ASSUME disk[p] = "there"
          PROVE  IsInjective(docs) /\ ToSet(docs) \subseteq t /\ t \ ToSet(docs) = stray
      <4>1. CASE whole
        <5>1. docs = next /\ t = texts[p] \cup ToSet(batch) /\ stray = strays[p] \ ToSet(batch)
          BY <2>4, <2>5, <4>1
        <5> HIDE DEF docs, t, stray
        <5> QED BY <2>1, <2>3, <3>2, <5>1
      <4>2. CASE ~whole
        <5>1. docs = documents[p] /\ stray = strays[p] \cup (part \ ToSet(documents[p]))
          BY <2>5, <4>2
        <5>2. t = texts[p] \cup part
          OBVIOUS
        <5> HIDE DEF docs, t, stray
        <5> QED BY <2>1, <3>2, <5>1, <5>2
      <4> QED BY <4>1, <4>2
    <3> HIDE DEF docs, t, stray
    <3> QED BY <1>2, <2>1, <3>1, <3>2 DEF Sound
  <2>8. disk[p] = disk[p] =>
           Grown(saved[p], saved[p], artifacts[p], artifacts[p], documents[p], docs,
                 chats[p], chats[p])
    <3>1. ToSet(documents[p]) \subseteq ToSet(docs)
      <4> HIDE DEF next
      <4> QED BY <2>3
    <3> HIDE DEF docs
    <3> QED BY <1>2, <3>1 DEF Grown
  <2> HIDE DEF docs, t, stray
  <2> QED BY <2>6, <2>7, <2>8, StepOfOne
<1>18. ASSUME NEW p \in Projects, NEW what, W!Export(p, what)
      PROVE  SpacesInv' /\ AllGrow
  <2>1. /\ disk' = [disk EXCEPT ![p] = disk[p]] /\ chats' = [chats EXCEPT ![p] = chats[p]]
        /\ saved' = [saved EXCEPT ![p] = saved[p]] /\ outputs' = [outputs EXCEPT ![p] = outputs[p]]
        /\ artifacts' = [artifacts EXCEPT ![p] = artifacts[p]] /\ documents' = [documents EXCEPT ![p] = documents[p]]
        /\ texts' = [texts EXCEPT ![p] = texts[p]] /\ strays' = [strays EXCEPT ![p] = strays[p]]
    BY <1>1, <1>18, SameExcept DEF W!Export, W!contents, W!history
  <2>2. Sound(disk[p], chats[p], saved[p], outputs[p], artifacts[p], documents[p], texts[p], strays[p])
    BY <1>2
  <2>3. disk[p] = disk[p] =>
           Grown(saved[p], saved[p], artifacts[p], artifacts[p], documents[p], documents[p],
                 chats[p], chats[p])
    BY <1>2
  <2> QED BY <2>1, <2>2, <2>3, StepOfOne
<1>19. ASSUME NEW i \in Items, NEW expired, NEW ps \in SUBSET Projects, W!Generate(i, expired, ps)
      PROVE  SpacesInv' /\ AllGrow
  <2>1. /\ UNCHANGED <<disk, chats, saved, artifacts, documents, texts, strays>>
        /\ outputs' = [p \in Projects |-> IF p \in ps THEN W!Produced(p, i) ELSE outputs[p]]
        /\ ps \subseteq W!Listed
    BY <1>19 DEF W!Generate
  <2>2. ASSUME NEW p \in Projects PROVE outputs'[p] \in Seq(Items) /\ (p \notin ps => outputs'[p] = outputs[p])
    <3>1. outputs[p] \in Seq(Items)
      BY <1>2 DEF Sound
    <3>2. <<i>> \o outputs[p] \in Seq(Items)
      BY <3>1
    <3>3. W!Produced(p, i) \in Seq(Items)
      BY <3>2, FirstKeeps, WorkspaceAssumption DEF W!Produced
    <3> QED BY <2>1, <3>1, <3>3
  <2>3. SpacesType'
    BY <1>1, <2>1, <2>2 DEF SpacesType
  <2>4. ASSUME NEW p \in Projects
        PROVE  Sound(disk'[p], chats'[p], saved'[p], outputs'[p], artifacts'[p], documents'[p], texts'[p], strays'[p])
    <3>1. p \in ps => disk[p] \notin {"none", "gone"}
      BY <2>1 DEF W!Listed
    <3> QED BY <1>2, <2>1, <2>2, <3>1 DEF Sound
  <2>5. AllGrow
    BY <1>2, <2>1 DEF AllGrow
  <2> QED BY <2>3, <2>4, <2>5 DEF SpacesInv
<1> QED
  <2>1. \A b \in W!Batches : b \in Seq(Documents) /\ IsInjective(b)
    BY DEF W!Batches, W!SeqOf, W!IsInjective, IsInjective
  <2> QED BY <2>1, <1>8, <1>9, <1>10, <1>11, <1>12, <1>13, <1>14, <1>15, <1>16, <1>17, <1>18, <1>19 DEF W!Next

LEMMA SpacesInvariant == W!Spec => []SpacesInv
<1>1. W!Init => SpacesInv
  <2> SUFFICES ASSUME W!Init PROVE SpacesInv
    OBVIOUS
  <2>1. /\ disk = [p \in Projects |-> "none"]
        /\ texts = [p \in Projects |-> {}] /\ strays = [p \in Projects |-> {}]
    BY DEF W!Init
  <2>2. /\ chats = [p \in Projects |-> <<>>] /\ saved = [p \in Projects |-> <<>>]
        /\ artifacts = [p \in Projects |-> <<>>] /\ outputs = [p \in Projects |-> <<>>]
        /\ documents = [p \in Projects |-> <<>>]
    BY DEF W!Init, W!Nothing
  <2>3. Sound("none", <<>>, <<>>, <<>>, <<>>, <<>>, {}, {})
    BY WorkspaceAssumption DEF Sound, OneOfEach
  <2>4. SpacesType
    BY <2>1, <2>2 DEF SpacesType
  <2> QED BY <2>1, <2>2, <2>3, <2>4 DEF SpacesInv
<1>2. SpacesInv /\ UNCHANGED W!vars => SpacesInv'
  BY DEF SpacesInv, SpacesType, W!vars, W!contents, W!history
<1> QED BY <1>1, <1>2, SpacesStep, PTL DEF W!Spec

\* Between any two of its steps the files of a project agree: add_project_files
\* lists a document only when its text is cached and indexed, and whatever else is
\* there an upload that was cut off has left; and nothing is in a project that is gone.
THEOREM ProjectFilesAgree == W!Spec => []DirectoriesAgree
<1>1. SpacesInv => DirectoriesAgree
  BY DEF SpacesInv, Sound, DirectoriesAgree, W!DirectoriesAgree, W!IsInjective, IsInjective, W!ToSet, ToSet
<1> QED BY <1>1, SpacesInvariant, PTL

\* Two sets that differ in nothing but one element.
LEMMA DifferByOne ==
  ASSUME NEW A, NEW B, NEW e, \A x : x # e => (x \in A <=> x \in B)
  PROVE  W!Cardinality(W!SymDiff(A, B)) <= 1
<1>1. W!SymDiff(A, B) \in SUBSET {e}
  BY DEF W!SymDiff
<1>2. IsFiniteSet({e}) /\ Cardinality({e}) = 1
  BY FS_Singleton
<1>3. Cardinality(W!SymDiff(A, B)) <= 1
  BY <1>1, <1>2, FS_Subset
<1>4. W!Cardinality(W!SymDiff(A, B)) = Cardinality(W!SymDiff(A, B))
  BY DEF W!Cardinality, Cardinality
<1> QED BY <1>3, <1>4

\* No step takes more from a project that is still there than the one entry it is
\* about: the limits of saved_items.py, artifacts.py and add_project_files refuse
\* what is too much before it is written, so that no list is ever cut.
THEOREM ProjectsKeepTheirEntries == W!Spec => NothingVanishes
<1> DEFINE Keeps == \A p \in Projects : disk'[p] = disk[p] =>
             /\ W!Cardinality(W!SymDiff(W!ToSet(saved[p]), W!ToSet(saved'[p]))) <= 1
             /\ W!Cardinality(W!SymDiff(W!Ids(artifacts[p]), W!Ids(artifacts'[p]))) <= 1
             /\ \A k \in DOMAIN artifacts[p], m \in DOMAIN artifacts'[p] :
                  artifacts[p][k].id = artifacts'[p][m].id =>
                    W!IsPrefix(artifacts[p][k].files, artifacts'[p][m].files)
             /\ W!ToSet(documents[p]) \subseteq W!ToSet(documents'[p])
             /\ W!Ids(chats[p]) \subseteq W!Ids(chats'[p]) \/ Len(chats[p]) = MaxChats
<1>1. SpacesInv /\ [W!Next]_(W!vars) => [Keeps]_(W!vars)
  <2> SUFFICES ASSUME SpacesInv, W!Next, NEW p \in Projects, disk'[p] = disk[p]
               PROVE  /\ W!Cardinality(W!SymDiff(W!ToSet(saved[p]), W!ToSet(saved'[p]))) <= 1
                      /\ W!Cardinality(W!SymDiff(W!Ids(artifacts[p]), W!Ids(artifacts'[p]))) <= 1
                      /\ \A k \in DOMAIN artifacts[p], m \in DOMAIN artifacts'[p] :
                           artifacts[p][k].id = artifacts'[p][m].id =>
                             W!IsPrefix(artifacts[p][k].files, artifacts'[p][m].files)
                      /\ W!ToSet(documents[p]) \subseteq W!ToSet(documents'[p])
                      /\ W!Ids(chats[p]) \subseteq W!Ids(chats'[p]) \/ Len(chats[p]) = MaxChats
    OBVIOUS
  <2>1. Grown(saved[p], saved'[p], artifacts[p], artifacts'[p], documents[p], documents'[p],
              chats[p], chats'[p])
    BY SpacesStep DEF AllGrow
  <2>2. \A list : W!ToSet(list) = ToSet(list) /\ W!Ids(list) = IdsOf(list)
    BY DEF W!ToSet, ToSet, W!Ids, IdsOf
  <2>3. PICK i : \A x : x # i => (x \in ToSet(saved[p]) <=> x \in ToSet(saved'[p]))
    BY <2>1 DEF Grown
  <2>4. W!Cardinality(W!SymDiff(ToSet(saved[p]), ToSet(saved'[p]))) <= 1
    BY <2>3, DifferByOne
  <2>5. PICK a : \A x : x # a => (x \in IdsOf(artifacts[p]) <=> x \in IdsOf(artifacts'[p]))
    BY <2>1 DEF Grown, Continues
  <2>6. W!Cardinality(W!SymDiff(IdsOf(artifacts[p]), IdsOf(artifacts'[p]))) <= 1
    BY <2>5, DifferByOne
  <2>7. \A k \in DOMAIN artifacts[p], m \in DOMAIN artifacts'[p] :
           artifacts[p][k].id = artifacts'[p][m].id =>
             W!IsPrefix(artifacts[p][k].files, artifacts'[p][m].files)
    BY <2>1 DEF Grown, Continues, IsPrefix, W!IsPrefix
  <2>8. /\ ToSet(documents[p]) \subseteq ToSet(documents'[p])
        /\ IdsOf(chats[p]) \subseteq IdsOf(chats'[p]) \/ Len(chats[p]) = MaxChats
    BY <2>1 DEF Grown
  <2> QED BY <2>2, <2>4, <2>6, <2>7, <2>8
<1>2. [Keeps]_(W!vars) => [(W!contents)' # W!contents => Keeps]_(W!vars)
  OBVIOUS
<1> QED BY <1>1, <1>2, SpacesInvariant, PTL DEF W!Spec, NothingVanishes, W!NothingVanishes

(***************************************************************************)
(* The prompt. What is sent is an end of the list of what was said after   *)
(* the place where the request begins (NormalizedIsTalk, ManagedDrops); so *)
(* it has the question, no gap and nothing that the summary stands for     *)
(* (EndOfTalk, Good). A prompt that was neither cut nor dropped from is    *)
(* settled by its question and its summary (Whole), and a conversation     *)
(* grows only at its end: the next one begins with it (AskedBegins).       *)
(***************************************************************************)
LEMMA PromptsInOrder == ASSUME NEW S, NEW less PROVE R!InOrder(S, less) = InOrder(S, less)
<1> DEFINE their(k) == CHOOSE i \in S : R!Cardinality({j \in S : j = i \/ <<j, i>> \in less}) = k
           ours(k)  == CHOOSE i \in S : Cardinality({j \in S : j = i \/ <<j, i>> \in less}) = k
<1>1. \A X : R!Cardinality(X) = Cardinality(X)
  BY DEF R!Cardinality, Cardinality
<1>2. \A k : their(k) = ours(k)
  <2> TAKE k
  <2>1. \A i : (i \in S /\ R!Cardinality({j \in S : j = i \/ <<j, i>> \in less}) = k)
              <=> (i \in S /\ Cardinality({j \in S : j = i \/ <<j, i>> \in less}) = k)
    BY <1>1
  <2> QED BY <2>1
<1>3. InOrder(S, less) = [k \in 1 .. Cardinality(S) |-> ours(k)]
  BY DEF InOrder
<1>4. R!InOrder(S, less) = [k \in 1 .. R!Cardinality(S) |-> their(k)]
  BY DEF R!InOrder
<1>5. R!Cardinality(S) = Cardinality(S)
  BY <1>1
<1> HIDE DEF their, ours
<1> QED BY <1>2, <1>3, <1>4, <1>5

LEMMA PromptsAmong == ASSUME NEW seq, NEW S PROVE R!Among(seq, S) = Among(seq, S)
<1> DEFINE kept == {i \in DOMAIN seq : seq[i] \in S}
           less == {x \in kept \X kept : x[1] < x[2]}
<1>1. R!InOrder(kept, less) = InOrder(kept, less)
  BY PromptsInOrder
<1>2. /\ Among(seq, S) = [k \in DOMAIN InOrder(kept, less) |-> seq[InOrder(kept, less)[k]]]
      /\ R!Among(seq, S) = [k \in DOMAIN R!InOrder(kept, less) |-> seq[R!InOrder(kept, less)[k]]]
  BY DEF Among, R!Among
<1> HIDE DEF kept, less
<1> QED BY <1>1, <1>2

\* Of the messages after the first c, up to the question q, those that say something.
Talk(m, q, c) == Among([k \in 1 .. q - c |-> c + k], {i \in 1 .. q : m[i] # "empty"})

\* An ascending list of these.
Ascends(list, c, q) ==
  /\ list \in Seq(Nat)
  /\ \A k, m \in 1 .. Len(list) : k < m => list[k] < list[m]
  /\ \A x \in ToSet(list) : c < x /\ x <= q

IsTalk(list, m, q, c) ==
  /\ Ascends(list, c, q) /\ Len(list) <= q - c
  /\ ToSet(list) = {i \in 1 .. q : c < i /\ m[i] # "empty"}

LEMMA TalkFacts ==
  ASSUME NEW q \in Nat, NEW c \in Nat, c < q, NEW m
  PROVE  IsTalk(Talk(m, q, c), m, q, c)
<1> DEFINE seq == [k \in 1 .. q - c |-> c + k]
           S == {i \in 1 .. q : m[i] # "empty"}
           list == Talk(m, q, c)
<1>1. seq \in Seq(Nat) /\ Len(seq) = q - c /\ q - c \in Nat /\ \A k \in 1 .. q - c : seq[k] = c + k
  OBVIOUS
<1>2. list = Among(seq, S)
  BY DEF Talk
<1>3. \A i \in S : i \in Nat
  OBVIOUS
<1> HIDE DEF seq, S, list
<1>4. /\ list \in Seq(Nat \cap S)
      /\ \E h : Embeds(h, list, seq, S)
      /\ ToSet(list) = ToSet(seq) \cap S /\ Len(list) <= Len(seq)
  BY <1>1, <1>2, AmongFacts, AmongElements
<1>5. list \in Seq(Nat) /\ Len(list) \in Nat
  BY <1>4
<1>6. PICK h : Embeds(h, list, seq, S)
  BY <1>4
<1>7. ASSUME NEW k \in 1 .. Len(list), NEW l \in 1 .. Len(list), k < l
      PROVE  list[k] < list[l]
  <2>1. /\ h[k] \in 1 .. q - c /\ h[l] \in 1 .. q - c /\ h[k] < h[l]
        /\ list[k] = seq[h[k]] /\ list[l] = seq[h[l]]
    BY <1>1, <1>6, <1>7 DEF Embeds
  <2>2. seq[h[k]] = c + h[k] /\ seq[h[l]] = c + h[l]
    BY <1>1, <2>1
  <2>3. h[k] \in Int /\ h[l] \in Int
    BY <2>1
  <2> QED BY <2>1, <2>2, <2>3
<1>8. ToSet(seq) = {i \in Nat : c < i /\ i <= q}
  <2>1. DOMAIN seq = 1 .. q - c
    BY <1>1
  <2>2. \A k \in 1 .. q - c : seq[k] \in Nat /\ c < seq[k] /\ seq[k] <= q
    BY <1>1
  <2>3. \A i \in Nat : c < i /\ i <= q => i - c \in 1 .. q - c /\ seq[i - c] = i
    BY <1>1
  <2> QED BY <2>1, <2>2, <2>3 DEF ToSet
<1>9. \A x \in ToSet(list) : c < x /\ x <= q
  BY <1>4, <1>8
<1>10. ToSet(list) = {i \in 1 .. q : c < i /\ m[i] # "empty"}
  BY <1>4, <1>8 DEF S
<1> QED BY <1>1, <1>4, <1>5, <1>7, <1>9, <1>10 DEF Ascends, IsTalk, list

LEMMA LeastOf ==
  ASSUME NEW D, D \subseteq Nat, IsFiniteSet(D), D # {}
  PROVE  R!Min(D) \in D /\ \A d \in D : R!Min(D) <= d
<1> DEFINE less == {x \in D \X D : x[1] < x[2]}
           c == Cardinality(D)
           f == InOrder(D, less)
<1>1. \A i, j \in D : <<i, j>> \in less <=> i < j
  OBVIOUS
<1> HIDE DEF less
<1>2. \A d \in D : d \in Int
  OBVIOUS
<1>3. Orders(less, D)
  BY <1>1, <1>2 DEF Orders
<1>4. /\ c \in Nat /\ f \in [1 .. c -> D]
      /\ \A k, m \in 1 .. c : k < m => <<f[k], f[m]>> \in less
      /\ \A i \in D : \E k \in 1 .. c : f[k] = i
  BY <1>3, InOrderFacts
<1> HIDE DEF f
<1>5. c # 0
  BY FS_EmptySet
<1> HIDE DEF c
<1>6. 1 \in 1 .. c /\ f[1] \in D
  BY <1>4, <1>5
<1>7. ASSUME NEW d \in D PROVE f[1] <= d
  <2>1. PICK k \in 1 .. c : f[k] = d
    BY <1>4
  <2>2. k = 1 \/ 1 < k
    BY <1>4
  <2>3. 1 < k => f[1] < f[k]
    BY <1>1, <1>4, <1>6
  <2>4. f[1] \in Int /\ d \in Int
    BY <1>6, <1>2
  <2> QED BY <2>1, <2>2, <2>3, <2>4
<1> QED BY <1>6, <1>7 DEF R!Min

\* What is left of a list when its first elements are dropped, at least one stays.
Behind(list, d) == SubSeq(list, d + 1, Len(list))

LEMMA BehindFacts ==
  ASSUME NEW list \in Seq(Nat), NEW d \in 0 .. Len(list)
  PROVE  /\ Behind(list, d) \in Seq(Nat) /\ Len(Behind(list, d)) = Len(list) - d
         /\ DOMAIN Behind(list, d) = 1 .. Len(list) - d
         /\ \A k \in 1 .. Len(list) - d : Behind(list, d)[k] = list[d + k]
         /\ d = 0 => Behind(list, d) = list
<1>1. PICK n \in Nat : n = Len(list)
  OBVIOUS
<1>2. Len(SubSeq(list, d + 1, n)) = n - d /\ DOMAIN SubSeq(list, d + 1, n) = 1 .. n - d
  BY <1>1
<1>3. SubSeq(list, d + 1, n) \in Seq(Nat)
  BY <1>1
<1>4. ASSUME NEW k \in 1 .. n - d PROVE SubSeq(list, d + 1, n)[k] = list[d + k]
  <2>1. n - d \in Nat /\ k \in Nat /\ (n - (d + 1)) + 1 = n - d /\ (k + (d + 1)) - 1 = d + k
    BY <1>1
  <2> QED BY <1>1, <2>1
<1>5. d = 0 => SubSeq(list, d + 1, n) = list
  BY <1>1
<1>6. Behind(list, d) = SubSeq(list, d + 1, n)
  BY <1>1 DEF Behind
<1> QED BY <1>1, <1>2, <1>3, <1>4, <1>5, <1>6

LEMMA SameLists ==
  ASSUME NEW f \in Seq(Nat), NEW g \in Seq(Nat), NEW n \in Nat,
         DOMAIN f = 1 .. n, DOMAIN g = 1 .. n, \A k \in 1 .. n : f[k] = g[k]
  PROVE  f = g
  OBVIOUS

\* Dropping twice.
LEMMA BehindTwice ==
  ASSUME NEW list \in Seq(Nat), NEW w \in 0 .. Len(list), NEW e \in 0 .. Len(list) - w
  PROVE  Behind(Behind(list, w), e) = Behind(list, w + e)
<1> DEFINE n == Len(list)
           f == Behind(Behind(list, w), e)
           g == Behind(list, w + e)
<1>1. n \in Nat /\ w \in Nat /\ e \in Nat /\ w + e \in 0 .. n /\ e \in 0 .. (n - w)
  OBVIOUS
<1>2. /\ Behind(list, w) \in Seq(Nat) /\ Len(Behind(list, w)) = n - w
      /\ \A k \in 1 .. n - w : Behind(list, w)[k] = list[w + k]
  BY BehindFacts
<1>3. /\ f \in Seq(Nat) /\ DOMAIN f = 1 .. (n - w) - e
      /\ \A k \in 1 .. (n - w) - e : f[k] = Behind(list, w)[e + k]
  <2> DEFINE rest == Behind(list, w)
  <2>1. rest \in Seq(Nat) /\ e \in 0 .. Len(rest) /\ Len(rest) = n - w
    BY <1>1, <1>2
  <2> HIDE DEF rest
  <2>2. /\ Behind(rest, e) \in Seq(Nat) /\ DOMAIN Behind(rest, e) = 1 .. Len(rest) - e
        /\ \A k \in 1 .. Len(rest) - e : Behind(rest, e)[k] = rest[e + k]
    BY <2>1, BehindFacts
  <2> QED BY <2>1, <2>2 DEF rest
<1>4. /\ g \in Seq(Nat) /\ DOMAIN g = 1 .. n - (w + e)
      /\ \A k \in 1 .. n - (w + e) : g[k] = list[(w + e) + k]
  BY <1>1, BehindFacts
<1> HIDE DEF f, g, n
<1>5. (n - w) - e = n - (w + e)
  BY <1>1
<1>6. ASSUME NEW k \in 1 .. n - (w + e) PROVE f[k] = g[k]
  <2>1. e + k \in 1 .. n - w /\ w + (e + k) = (w + e) + k
    BY <1>1
  <2> QED BY <1>2, <1>3, <1>4, <1>5, <2>1
<1>7. f = g
  <2>1. n - (w + e) \in Nat
    BY <1>1
  <2> QED BY <1>3, <1>4, <1>5, <1>6, <2>1, SameLists
<1> QED BY <1>7 DEF f, g

\* The end of an ascending list that begins after c and ends with q: it has q, and
\* everything of the whole list that is not before its first.
LEMMA EndOfTalk ==
  ASSUME NEW q \in Nat, NEW c \in Nat, NEW list, Ascends(list, c, q), q \in ToSet(list),
         NEW d \in 0 .. Len(list) - 1
  PROVE  /\ Behind(list, d) \in Seq(Nat) /\ Len(Behind(list, d)) = Len(list) - d
         /\ q \in ToSet(Behind(list, d))
         /\ \A x : x \in ToSet(Behind(list, d)) <=>
                     x \in ToSet(list) /\ x >= R!Min(ToSet(Behind(list, d)))
<1> DEFINE n == Len(list)
           end == Behind(list, d)
<1>1. /\ n \in Nat /\ n > 0 /\ d \in Nat /\ d < n /\ list \in Seq(Nat)
      /\ \A k \in 1 .. n : list[k] \in Nat
      /\ \A k, m \in 1 .. n : k < m => list[k] < list[m]
  BY DEF Ascends
<1>2. /\ end \in Seq(Nat) /\ Len(end) = n - d
      /\ \A k \in 1 .. n - d : end[k] = list[d + k]
  <2>1. d \in 0 .. Len(list)
    BY <1>1
  <2> QED BY <1>1, <2>1, BehindFacts
<1> HIDE DEF n, end
<1>3. ToSet(end) = {list[k] : k \in d + 1 .. n}
  <2>1. DOMAIN end = 1 .. n - d
    BY <1>1, <1>2
  <2>2. \A k \in 1 .. n - d : d + k \in d + 1 .. n /\ end[k] = list[d + k]
    BY <1>1, <1>2
  <2>3. \A k \in d + 1 .. n : k - d \in 1 .. n - d /\ end[k - d] = list[k]
    <3> SUFFICES ASSUME NEW k \in d + 1 .. n
                 PROVE  k - d \in 1 .. n - d /\ end[k - d] = list[k]
      OBVIOUS
    <3>1. k - d \in 1 .. n - d /\ d + (k - d) = k
      BY <1>1
    <3> QED BY <1>2, <3>1
  <2> QED BY <2>1, <2>2, <2>3 DEF ToSet
<1>4. ToSet(list) = {list[k] : k \in 1 .. n}
  BY <1>1 DEF ToSet, n
<1>5. list[n] = q
  <2>1. PICK k \in 1 .. n : list[k] = q
    BY <1>4
  <2>2. list[n] <= q
    BY <1>1, <1>4 DEF Ascends
  <2>3. n \in 1 .. n /\ (k = n \/ k < n)
    BY <1>1
  <2>4. k < n => list[k] < list[n]
    BY <1>1, <2>3
  <2> QED BY <1>1, <2>1, <2>2, <2>3, <2>4
<1>6. q \in ToSet(end)
  BY <1>1, <1>3, <1>5
<1>7. \A k \in d + 1 .. n : list[d + 1] <= list[k] /\ k \in 1 .. n
  <2> SUFFICES ASSUME NEW k \in d + 1 .. n PROVE list[d + 1] <= list[k] /\ k \in 1 .. n
    OBVIOUS
  <2>1. d + 1 \in 1 .. n /\ k \in 1 .. n /\ (k = d + 1 \/ d + 1 < k)
    BY <1>1
  <2> QED BY <1>1, <2>1
<1>8. R!Min(ToSet(end)) = list[d + 1]
  <2>1. d + 1 \in d + 1 .. n /\ list[d + 1] \in ToSet(end) /\ list[d + 1] \in Nat
    BY <1>1, <1>3
  <2>2. \A x \in ToSet(end) : list[d + 1] <= x /\ x \in Nat
    BY <1>1, <1>3, <1>7
  <2>3. \A x \in ToSet(end) : (\A y \in ToSet(end) : x <= y) => x = list[d + 1]
    BY <2>1, <2>2
  <2> QED BY <2>1, <2>2, <2>3 DEF R!Min
<1>9. ASSUME NEW x PROVE x \in ToSet(end) <=> x \in ToSet(list) /\ x >= list[d + 1]
  <2>1. x \in ToSet(end) => x \in ToSet(list) /\ x >= list[d + 1]
    BY <1>1, <1>3, <1>4, <1>7
  <2>2. ASSUME NEW k \in 1 .. n, list[k] >= list[d + 1] PROVE list[k] \in ToSet(end)
    <3>1. d + 1 \in 1 .. n /\ (k \in d + 1 .. n \/ k < d + 1)
      BY <1>1
    <3>2. k < d + 1 => list[k] < list[d + 1]
      BY <1>1, <3>1
    <3> QED BY <1>1, <1>3, <2>2, <3>1, <3>2
  <2> QED BY <1>4, <2>1, <2>2
<1> QED BY <1>2, <1>6, <1>8, <1>9 DEF n, end

\* What the gateway drops of a list: its first elements. Nothing if there is no
\* summary; and what is left fits, or no more may be dropped, or the model has no room.
LEMMA ManagedDrops ==
  ASSUME NEW list \in Seq(Nat), list # <<>>, NEW model
  PROVE  \E d \in 0 .. Len(list) - 1 :
           /\ R!Managed(list, model) = Behind(list, d)
           /\ covered = 0 => d = 0
           /\ covered # 0 => \/ Available[model] = 0 \/ Len(list) - d <= MinKeep
                             \/ R!Fits(ToSet(Behind(list, d)), model)
           /\ covered = 0 \/ Len(list) + 2 <= WindowMessages =>
                d = 0 \/ ~R!Fits(ToSet(list), model)
<1> DEFINE n == Len(list)
           room == R!Most(1, WindowMessages - 2)
           w == IF n + 2 <= WindowMessages THEN 0 ELSE R!Most(1, n - room + 1) - 1
           rest == Behind(list, w)
<1>1. n \in Nat /\ n > 0 /\ Behind(list, 0) = list
  BY DEF Behind
<1>2. room \in Nat /\ room >= 1 /\ w \in 0 .. n - 1 /\ (n + 2 <= WindowMessages => w = 0)
  BY <1>1, PromptAssumption DEF R!Most
<1>3. R!Window(list) = rest
  <2>1. CASE n + 2 <= WindowMessages
    BY <1>1, <2>1 DEF R!Window
  <2>2. CASE ~(n + 2 <= WindowMessages)
    <3>1. R!Window(list) = SubSeq(list, R!Most(1, n - room + 1), n)
      BY <2>2 DEF R!Window
    <3>2. w = R!Most(1, n - room + 1) - 1
      BY <2>2
    <3>3. R!Most(1, n - room + 1) \in Int
      BY <1>1, <1>2 DEF R!Most
    <3>4. w + 1 = R!Most(1, n - room + 1)
      BY <3>2, <3>3
    <3> HIDE DEF w
    <3> QED BY <3>1, <3>4 DEF Behind
  <2> QED BY <2>1, <2>2
<1> HIDE DEF w, room
<1>4. rest \in Seq(Nat) /\ Len(rest) = n - w /\ n - w \in Nat \ {0}
  <2>1. w \in 0 .. Len(list)
    BY <1>1, <1>2
  <2> QED BY <1>1, <1>2, <2>1, BehindFacts
<1>5. CASE covered = 0
  BY <1>1, <1>5 DEF R!Managed
<1>6. CASE covered # 0 /\ Available[model] = 0
  <2>1. R!Managed(list, model) = rest
    BY <1>3, <1>6 DEF R!Managed, R!Trim
  <2> QED BY <1>2, <1>6, <2>1
<1>7. CASE covered # 0 /\ Available[model] # 0
  <2> DEFINE most == R!Most(1, MinKeep)
             D == {d \in 0 .. Len(rest) : \/ R!Fits(R!ToSet(SubSeq(rest, d + 1, Len(rest))), model)
                                          \/ Len(rest) - d <= most}
             e == R!Min(D)
  <2>1. most = MinKeep /\ MinKeep \in Nat /\ MinKeep >= 1
    BY PromptAssumption DEF R!Most
  <2>2. R!Managed(list, model) = SubSeq(rest, e + 1, Len(rest))
    BY <1>3, <1>7 DEF R!Managed, R!Trim
  <2>3. Len(rest) \in Nat /\ Len(rest) > 0
    BY <1>4
  <2>4. IsFiniteSet(D) /\ D \subseteq Nat
    <3>1. IsFiniteSet(0 .. Len(rest)) /\ D \in SUBSET (0 .. Len(rest))
      BY <2>3, FS_Interval
    <3> QED BY <3>1, FS_Subset
  <2>5. Len(rest) - 1 \in D
    BY <2>1, <2>3
  <2>6. \A d \in D : /\ d \in 0 .. Len(rest)
                     /\ \/ R!Fits(R!ToSet(Behind(rest, d)), model)
                        \/ Len(rest) - d <= MinKeep
    BY <2>1 DEF Behind
  <2>7. R!Fits(ToSet(rest), model) => 0 \in D
    <3>1. SubSeq(rest, 0 + 1, Len(rest)) = rest
      <4> HIDE DEF rest
      <4> QED BY <1>4, <2>3
    <3>2. R!ToSet(SubSeq(rest, 0 + 1, Len(rest))) = ToSet(rest)
      BY <3>1 DEF R!ToSet, ToSet
    <3>3. 0 \in 0 .. Len(rest)
      BY <2>3
    <3> HIDE DEF rest
    <3> QED BY <3>2, <3>3
  <2> HIDE DEF D, most, rest
  <2>8. e \in D /\ \A d \in D : e <= d
    BY <2>4, <2>5, LeastOf
  <2> HIDE DEF e
  <2>9. e \in 0 .. Len(rest) - 1
    BY <2>3, <2>5, <2>6, <2>8
  <2>10. Behind(rest, e) = Behind(list, w + e) /\ w + e \in 0 .. n - 1
    <3>1. e \in 0 .. n - w /\ w \in 0 .. n /\ w + e \in 0 .. n - 1
      BY <1>1, <1>2, <1>4, <2>9
    <3> QED BY <3>1, BehindTwice DEF rest
  <2>11. R!Managed(list, model) = Behind(list, w + e)
    BY <2>2, <2>10 DEF Behind
  <2>12. R!Fits(ToSet(Behind(list, w + e)), model) \/ n - (w + e) <= MinKeep
    <3>1. R!Fits(R!ToSet(Behind(rest, e)), model) \/ Len(rest) - e <= MinKeep
      BY <2>6, <2>8
    <3>2. R!ToSet(Behind(rest, e)) = ToSet(Behind(list, w + e))
      BY <2>10 DEF R!ToSet, ToSet
    <3>3. Len(rest) - e = n - (w + e)
      BY <1>1, <1>2, <1>4, <2>9
    <3> QED BY <3>1, <3>2, <3>3
  <2>13. n + 2 <= WindowMessages => w + e = 0 \/ ~R!Fits(ToSet(list), model)
    <3> SUFFICES ASSUME n + 2 <= WindowMessages, R!Fits(ToSet(list), model)
                 PROVE  w + e = 0
      OBVIOUS
    <3>1. w = 0 /\ rest = list
      BY <1>1, <1>2 DEF rest
    <3>2. e <= 0
      BY <2>7, <2>8, <3>1
    <3> QED BY <2>9, <2>3, <3>1, <3>2
  <2> QED BY <1>7, <2>10, <2>11, <2>12, <2>13
<1> QED BY <1>5, <1>6, <1>7

-----------------------------------------------------------------------------
\* The prompt of the question q, if the first c messages are not sent and nothing
\* is dropped.
Asked(m, q, c) ==
  [k \in DOMAIN Talk(m, q, c) |->
     [at |-> Talk(m, q, c)[k],
      as |-> IF Talk(m, q, c)[k] = q /\ m[q] = "picture" THEN "pixels" ELSE "text",
      with |-> <<>>]]

\* b is the prompt of question q; if it was sent to the cloud and nothing of it was
\* cut or dropped, then it is all that was said after what its summary stands for.
Whole(b, m, q) ==
  b.via = "cloud" /\ ~b.cut /\ b.dropped = 0 =>
    q \in 1 .. Len(m) /\ b.covered \in Nat /\ b.covered < q /\ b.middle = Asked(m, q, b.covered)

\* b is right for the conversation as it is.
Good(b) ==
  /\ Len(messages) \in R!Places(b)
  /\ R!Places(b) = {i \in R!Spoken : i >= R!Min(R!Places(b))}
  /\ R!Places(b) \cap 1 .. request = {}
  /\ b.via = "cloud" /\ (\E k \in DOMAIN b.middle : b.middle[k].as = "pixels") => b.model = "pro"
  /\ b.untrusted \ {0} = {i \in R!Places(b) : messages[i] = "file"}
  /\ b.advice = "trim" => \/ covered = 0 \/ Available[b.model] = 0 \/ Len(b.middle) <= MinKeep
  /\ Whole(b, messages, Len(messages))
  /\ LET missing == R!Spoken \ (1 .. request \cup R!Places(b))
     IN  covered = 0 \/ Len(messages) - request + 2 <= WindowMessages =>
           missing = {} \/ (b.via = "cloud" /\ ~R!Fits(missing \cup R!Places(b), b.model))

\* The question that the last prompt was about.
LastQuestion == IF stage = "sent" THEN Len(messages)
                ELSE IF stage = "idle" THEN Len(messages) - 1 ELSE Len(messages) - 2

Conversation ==
  /\ messages \in Seq(R!Kinds) /\ covered \in Nat /\ request \in Nat
  /\ stage \in {"idle", "typed", "prepared", "sent"}
  /\ Len(messages) % 2 = IF stage = "idle" THEN 0 ELSE 1
  /\ \A i \in DOMAIN messages : i % 2 = 1 => messages[i] # "empty"
  /\ covered = 0 \/ covered + KeepRecent <= Len(messages)

PromptInv ==
  /\ Conversation
  /\ stage = "prepared" \/ R!JustSent => request < Len(messages) /\ (notice \/ request = covered)
  /\ R!JustSent => Good(body) /\ Whole(before, messages, Len(messages) - 2)
  /\ Whole(body, messages, LastQuestion)

LEMMA NormalizedIsTalk ==
  ASSUME messages \in Seq(R!Kinds)
  PROVE  R!Normalized = Talk(messages, Len(messages), request)
<1>1. R!Spoken = {i \in 1 .. Len(messages) : messages[i] # "empty"}
  BY DEF R!Spoken
<1>2. R!Normalized = Among([k \in 1 .. Len(messages) - request |-> request + k], R!Spoken)
  BY PromptsAmong DEF R!Normalized, R!Question
<1> QED BY <1>1, <1>2 DEF Talk

LEMMA SentIs ==
  ASSUME NEW i
  PROVE  R!Sent(i) = [at |-> i,
                      as |-> IF i = Len(messages) /\ messages[Len(messages)] = "picture"
                             THEN "pixels" ELSE "text",
                      with |-> <<>>]
  BY DEF R!Sent, R!Question, R!HasPicture

\* The end of what was said, as it is sent.
LEMMA EndIsSent ==
  ASSUME Conversation, request < Len(messages), messages[Len(messages)] # "empty",
         NEW b, NEW s, NEW d \in 0 .. Len(R!Normalized) - 1,
         b.middle = R!Placed(Behind(R!Normalized, d), s)
  PROVE  /\ R!Places(b) = ToSet(Behind(R!Normalized, d))
         /\ Len(b.middle) = Len(R!Normalized) - d
         /\ Len(messages) \in R!Places(b)
         /\ R!Places(b) = {i \in R!Spoken : i >= R!Min(R!Places(b))}
         /\ R!Places(b) \cap 1 .. request = {}
         /\ (\E k \in DOMAIN b.middle : b.middle[k].as = "pixels") => R!HasPicture
         /\ d = 0 => /\ b.middle = Asked(messages, Len(messages), request)
                     /\ R!Places(b) = R!Spoken \ 1 .. request
         /\ R!Spoken \ 1 .. request = ToSet(R!Normalized)
         /\ Len(R!Normalized) <= Len(messages) - request
<1> DEFINE q == Len(messages)
           list == R!Normalized
           end == Behind(list, d)
<1>1. /\ q \in Nat /\ request \in Nat /\ messages \in Seq(R!Kinds) /\ DOMAIN messages = 1 .. q
      /\ list = Talk(messages, q, request)
  BY NormalizedIsTalk DEF Conversation
<1>2. /\ Ascends(list, request, q) /\ Len(list) <= q - request
      /\ ToSet(list) = {i \in 1 .. q : request < i /\ messages[i] # "empty"}
  <2>1. IsTalk(list, messages, q, request)
    <3> HIDE DEF q, list
    <3>1. request < q
      BY DEF q
    <3> QED BY <1>1, <3>1, TalkFacts
  <2> HIDE DEF list
  <2> QED BY <2>1 DEF IsTalk
<1> HIDE DEF list
<1>3. q \in ToSet(list)
  BY <1>1, <1>2
<1>4. list \in Seq(Nat) /\ d \in 0 .. Len(list) /\ d \in 0 .. Len(list) - 1
  <2>1. list \in Seq(Nat) /\ Len(list) \in Nat
    BY <1>2 DEF Ascends
  <2>2. d \in 0 .. Len(list) - 1
    BY DEF list
  <2> QED BY <2>1, <2>2
<1>5. /\ end \in Seq(Nat) /\ Len(end) = Len(list) - d /\ q \in ToSet(end)
      /\ \A x : x \in ToSet(end) <=> x \in ToSet(list) /\ x >= R!Min(ToSet(end))
  <2> HIDE DEF q
  <2> QED BY <1>1, <1>2, <1>3, <1>4, EndOfTalk
<1>6. d = 0 => end = list
  BY <1>4, BehindFacts
<1> HIDE DEF end
<1>7. b.middle = [k \in DOMAIN end |-> R!Sent(end[k])]
  BY DEF R!Placed, end, list
<1>8. /\ DOMAIN b.middle = DOMAIN end /\ b.middle \in [1 .. Len(end) -> {R!Sent(x) : x \in ToSet(end)}]
      /\ \A k \in DOMAIN end : b.middle[k] = R!Sent(end[k])
  BY <1>5, <1>7 DEF ToSet
<1>9. \A x : /\ R!Sent(x).at = x
             /\ R!Sent(x).as = "pixels" => R!HasPicture
  BY SentIs DEF R!HasPicture, R!Question
<1>10. R!Places(b) = ToSet(end)
  BY <1>8, <1>9 DEF R!Places, ToSet
<1>11. R!Spoken = {i \in 1 .. q : messages[i] # "empty"}
  BY <1>1 DEF R!Spoken
<1>12. R!Spoken \ 1 .. request = ToSet(list)
  BY <1>1, <1>2, <1>11
<1>13. R!Places(b) = {i \in R!Spoken : i >= R!Min(R!Places(b))}
  <2>1. PICK least : least = R!Min(ToSet(end))
    OBVIOUS
  <2>2. least \in ToSet(end)
    <3>1. ToSet(end) \subseteq Nat /\ ToSet(end) # {} /\ IsFiniteSet(ToSet(end))
      <4>1. ToSet(end) \subseteq Nat /\ ToSet(end) # {}
        BY <1>5 DEF ToSet
      <4>2. ToSet(end) \in SUBSET (1 .. q)
        BY <1>2, <1>5
      <4>3. IsFiniteSet(1 .. q)
        BY <1>1, FS_Interval
      <4> QED BY <4>1, <4>2, <4>3, FS_Subset
    <3> QED BY <2>1, <3>1, LeastOf
  <2>3. least > request /\ least \in Int
    BY <1>2, <1>5, <2>2
  <2>4. ASSUME NEW x PROVE x \in ToSet(end) <=> x \in R!Spoken /\ x >= least
    <3>1. x \in ToSet(end) <=> x \in ToSet(list) /\ x >= least
      BY <1>5, <2>1
    <3>2. x \in R!Spoken /\ x >= least => x \in 1 .. q /\ request < x /\ messages[x] # "empty"
      BY <1>1, <1>11, <2>3
    <3>3. x \in ToSet(list) => x \in R!Spoken
      BY <1>2, <1>11
    <3> QED BY <1>2, <3>1, <3>2, <3>3
  <2> QED BY <1>10, <2>1, <2>4
<1>14. R!Places(b) \cap 1 .. request = {}
  BY <1>1, <1>2, <1>5, <1>10
<1>15. (\E k \in DOMAIN b.middle : b.middle[k].as = "pixels") => R!HasPicture
  BY <1>8, <1>9
<1>16. d = 0 => b.middle = Asked(messages, q, request)
  BY <1>1, <1>6, <1>7, SentIs DEF Asked
<1>17. Len(b.middle) = Len(end)
  <2>1. Len(end) \in Nat /\ DOMAIN b.middle = 1 .. Len(end)
    BY <1>5, <1>8
  <2>2. b.middle \in Seq({R!Sent(x) : x \in ToSet(end)})
    BY <1>8, <2>1
  <2> QED BY <2>1, <2>2
<1> QED BY <1>2, <1>5, <1>6, <1>10, <1>12, <1>13, <1>14, <1>15, <1>16, <1>17 DEF list, end

LEMMA QuestionSaid ==
  ASSUME Conversation, stage # "idle"
  PROVE  messages[Len(messages)] # "empty" /\ Len(messages) \in Nat \ {0}
<1>1. Len(messages) \in Nat /\ Len(messages) % 2 = 1 /\ DOMAIN messages = 1 .. Len(messages)
  BY DEF Conversation
<1>2. Len(messages) # 0
  BY <1>1
<1> QED BY <1>1, <1>2 DEF Conversation

LEMMA NormalizedFacts ==
  ASSUME Conversation, request < Len(messages), messages[Len(messages)] # "empty"
  PROVE  /\ R!Normalized \in Seq(Nat) /\ R!Normalized # <<>> /\ Len(R!Normalized) \in Nat \ {0}
         /\ ToSet(R!Normalized) \subseteq {i \in 1 .. Len(messages) : request < i}
         /\ Behind(R!Normalized, 0) = R!Normalized
<1> DEFINE q == Len(messages)
           list == R!Normalized
<1>1. /\ q \in Nat /\ request \in Nat /\ messages \in Seq(R!Kinds)
      /\ list = Talk(messages, q, request)
  BY NormalizedIsTalk DEF Conversation
<1>2. IsTalk(list, messages, q, request)
  <2> HIDE DEF q, list
  <2>1. request < q
    BY DEF q
  <2> QED BY <1>1, <2>1, TalkFacts
<1> HIDE DEF list
<1>3. /\ list \in Seq(Nat) /\ Len(list) \in Nat
      /\ ToSet(list) = {i \in 1 .. q : request < i /\ messages[i] # "empty"}
  BY <1>2 DEF IsTalk, Ascends
<1>4. q \in ToSet(list)
  BY <1>1, <1>3
<1>5. Len(list) # 0 /\ list # <<>>
  BY <1>3, <1>4 DEF ToSet
<1>6. Behind(list, 0) = list
  BY <1>3 DEF Behind
<1> QED BY <1>3, <1>5, <1>6 DEF list

LEMMA CloudIsGood ==
  ASSUME Conversation, stage # "idle", request < Len(messages), notice \/ request = covered,
         NEW s, NEW b, b = R!CloudBody(s)
  PROVE  Good(b) /\ b.via = "cloud"
<1> DEFINE q == Len(messages)
<1>1. messages[q] # "empty" /\ q \in Nat \ {0}
  BY QuestionSaid
<1>2. PICK list : list = R!Normalized
  OBVIOUS
<1>3. /\ list \in Seq(Nat) /\ list # <<>> /\ Len(list) \in Nat \ {0}
      /\ ToSet(list) \subseteq {i \in 1 .. q : request < i} /\ Behind(list, 0) = list
  BY <1>1, <1>2, NormalizedFacts
<1>4. PICK model : model = R!CloudModel(s)
  OBVIOUS
<1>5. PICK d \in 0 .. Len(list) - 1 :
        /\ R!Managed(list, model) = Behind(list, d)
        /\ covered = 0 => d = 0
        /\ covered # 0 => \/ Available[model] = 0 \/ Len(list) - d <= MinKeep
                          \/ R!Fits(ToSet(Behind(list, d)), model)
        /\ covered = 0 \/ Len(list) + 2 <= WindowMessages =>
             d = 0 \/ ~R!Fits(ToSet(list), model)
  BY <1>3, ManagedDrops
<1>6. PICK middle, dynamic : middle = Behind(list, d) /\ dynamic = R!Dynamic(s)
  OBVIOUS
<1>7. b = [via |-> "cloud", model |-> model, covered |-> covered, cut |-> notice,
           middle |-> R!Placed(middle, s), dynamic |-> dynamic,
           dropped |-> Len(list) - Len(middle),
           untrusted |-> R!Untrusted(middle, dynamic), advice |-> R!Advice(middle, model)]
  BY <1>2, <1>4, <1>5, <1>6 DEF R!CloudBody
<1>8. /\ b.via = "cloud" /\ b.model = model /\ b.covered = covered
      /\ b.middle = R!Placed(middle, s) /\ b.dropped = Len(list) - Len(middle)
      /\ b.untrusted = R!Untrusted(middle, dynamic) /\ b.advice = R!Advice(middle, model)
  BY <1>7
<1>9. b.cut = notice
  BY <1>7
<1>10. /\ R!Places(b) = ToSet(middle) /\ Len(b.middle) = Len(list) - d
       /\ q \in R!Places(b) /\ R!Places(b) = {i \in R!Spoken : i >= R!Min(R!Places(b))}
       /\ R!Places(b) \cap 1 .. request = {}
       /\ (\E k \in DOMAIN b.middle : b.middle[k].as = "pixels") => R!HasPicture
       /\ d = 0 => /\ b.middle = Asked(messages, q, request)
                   /\ R!Places(b) = R!Spoken \ 1 .. request
       /\ R!Spoken \ 1 .. request = ToSet(list)
       /\ Len(list) <= q - request
  <2>1. d \in 0 .. Len(R!Normalized) - 1 /\ b.middle = R!Placed(Behind(R!Normalized, d), s)
    BY <1>2, <1>6, <1>8
  <2> HIDE DEF q
  <2>2. /\ R!Places(b) = ToSet(Behind(R!Normalized, d))
        /\ Len(b.middle) = Len(R!Normalized) - d
        /\ Len(messages) \in R!Places(b)
        /\ R!Places(b) = {i \in R!Spoken : i >= R!Min(R!Places(b))}
        /\ R!Places(b) \cap 1 .. request = {}
        /\ (\E k \in DOMAIN b.middle : b.middle[k].as = "pixels") => R!HasPicture
        /\ d = 0 => /\ b.middle = Asked(messages, Len(messages), request)
                    /\ R!Places(b) = R!Spoken \ 1 .. request
        /\ R!Spoken \ 1 .. request = ToSet(R!Normalized)
        /\ Len(R!Normalized) <= Len(messages) - request
    BY <1>1, <2>1, EndIsSent DEF q
  <2> QED BY <1>2, <1>6, <2>2 DEF q
<1>11. ToSet(middle) \subseteq ToSet(list) /\ Len(middle) = Len(list) - d
  <2>1. d \in 0 .. Len(list) /\ Len(list) \in Nat
    BY <1>3, <1>5
  <2>2. /\ Len(middle) = Len(list) - d
        /\ \A k \in 1 .. Len(list) - d : middle[k] = list[d + k]
        /\ middle \in Seq(Nat)
    BY <1>3, <1>6, <2>1, BehindFacts
  <2>3. \A k \in 1 .. Len(list) - d : d + k \in 1 .. Len(list)
    BY <1>3, <1>5
  <2>4. DOMAIN middle = 1 .. Len(list) - d /\ DOMAIN list = 1 .. Len(list)
    BY <1>3, <2>1, <2>2
  <2>5. \A k \in DOMAIN middle : d + k \in DOMAIN list /\ middle[k] = list[d + k]
    BY <2>2, <2>3, <2>4
  <2> QED BY <2>2, <2>5 DEF ToSet
<1>12. b.model = "pro" \/ ~R!HasPicture
  BY <1>4, <1>8 DEF R!CloudModel
<1>13. b.untrusted \ {0} = {i \in R!Places(b) : messages[i] = "file"}
  <2>1. R!ToSet(middle) = ToSet(middle)
    BY DEF R!ToSet, ToSet
  <2>2. 0 \notin ToSet(middle)
    BY <1>1, <1>3, <1>11
  <2> QED BY <1>8, <1>10, <2>1, <2>2 DEF R!Untrusted
<1>14. b.advice = "trim" => \/ covered = 0 \/ Available[b.model] = 0 \/ Len(b.middle) <= MinKeep
  <2>1. R!ToSet(middle) = ToSet(middle)
    BY DEF R!ToSet, ToSet
  <2>2. b.advice = "trim" => ~R!Fits(ToSet(middle), model)
    BY <1>8, <2>1 DEF R!Advice
  <2> QED BY <1>5, <1>6, <1>8, <1>10, <2>2
<1>15. Whole(b, messages, q)
  <2> SUFFICES ASSUME ~b.cut, b.dropped = 0
               PROVE  /\ q \in 1 .. Len(messages) /\ b.covered \in Nat /\ b.covered < q
                      /\ b.middle = Asked(messages, q, b.covered)
    BY DEF Whole
  <2>1. request = covered
    BY <1>9
  <2>2. d = 0
    BY <1>3, <1>5, <1>8, <1>11
  <2>3. covered \in Nat
    BY DEF Conversation
  <2> QED BY <1>1, <1>8, <1>10, <2>1, <2>2, <2>3
<1>16. ASSUME covered = 0 \/ q - request + 2 <= WindowMessages,
              NEW missing, missing = R!Spoken \ (1 .. request \cup R!Places(b))
       PROVE  missing = {} \/ (b.via = "cloud" /\ ~R!Fits(missing \cup R!Places(b), b.model))
  <2>1. covered = 0 \/ Len(list) + 2 <= WindowMessages
    <3>1. q \in Nat /\ request \in Nat /\ Len(list) \in Nat /\ WindowMessages \in Nat
      BY <1>1, <1>3, PromptAssumption DEF Conversation
    <3> QED BY <1>10, <1>16, <3>1
  <2>2. d = 0 => missing = {}
    BY <1>10, <1>16
  <2>3. missing \cup R!Places(b) = ToSet(list)
    BY <1>10, <1>11, <1>16
  <2> QED BY <1>5, <1>8, <2>1, <2>2, <2>3
<1>17. LET missing == R!Spoken \ (1 .. request \cup R!Places(b))
       IN  covered = 0 \/ q - request + 2 <= WindowMessages =>
             missing = {} \/ (b.via = "cloud" /\ ~R!Fits(missing \cup R!Places(b), b.model))
  BY <1>16
<1> QED BY <1>8, <1>10, <1>12, <1>13, <1>14, <1>15, <1>17 DEF Good

LEMMA EdgeIsGood ==
  ASSUME Conversation, stage # "idle", request < Len(messages),
         NEW s, NEW b, b = R!EdgeBody(s)
  PROVE  Good(b) /\ b.via = "edge"
<1> DEFINE q == Len(messages)
<1>1. messages[q] # "empty" /\ q \in Nat \ {0}
  BY QuestionSaid
<1>2. PICK list : list = R!Normalized
  OBVIOUS
<1>3. /\ list \in Seq(Nat) /\ list # <<>> /\ Len(list) \in Nat \ {0}
      /\ ToSet(list) \subseteq {i \in 1 .. q : request < i} /\ Behind(list, 0) = list
  BY <1>1, <1>2, NormalizedFacts
<1>4. \E dynamic : b = [via |-> "edge", model |-> "local", covered |-> covered, cut |-> notice,
           middle |-> R!Placed(list, s), dynamic |-> dynamic, dropped |-> 0,
           untrusted |-> R!Untrusted(list, dynamic), advice |-> "ok"]
  BY <1>2 DEF R!EdgeBody
<1>5. PICK dynamic : b = [via |-> "edge", model |-> "local", covered |-> covered, cut |-> notice,
           middle |-> R!Placed(list, s), dynamic |-> dynamic, dropped |-> 0,
           untrusted |-> R!Untrusted(list, dynamic), advice |-> "ok"]
  BY <1>4
<1>6. /\ b.via = "edge" /\ b.middle = R!Placed(list, s)
      /\ b.untrusted = R!Untrusted(list, dynamic) /\ b.advice = "ok"
  BY <1>5
<1>7. /\ R!Places(b) = ToSet(list)
      /\ q \in R!Places(b) /\ R!Places(b) = {i \in R!Spoken : i >= R!Min(R!Places(b))}
      /\ R!Places(b) \cap 1 .. request = {}
      /\ R!Places(b) = R!Spoken \ 1 .. request
  <2>1. 0 \in 0 .. Len(R!Normalized) - 1 /\ b.middle = R!Placed(Behind(R!Normalized, 0), s)
    BY <1>2, <1>3, <1>6
  <2> HIDE DEF q
  <2>2. /\ R!Places(b) = ToSet(Behind(R!Normalized, 0))
        /\ Len(messages) \in R!Places(b)
        /\ R!Places(b) = {i \in R!Spoken : i >= R!Min(R!Places(b))}
        /\ R!Places(b) \cap 1 .. request = {}
        /\ R!Places(b) = R!Spoken \ 1 .. request
    BY <1>1, <2>1, EndIsSent DEF q
  <2> QED BY <1>2, <1>3, <2>2 DEF q
<1>8. b.untrusted \ {0} = {i \in R!Places(b) : messages[i] = "file"}
  <2>1. R!ToSet(list) = ToSet(list)
    BY DEF R!ToSet, ToSet
  <2>2. 0 \notin ToSet(list)
    BY <1>1, <1>3
  <2> QED BY <1>6, <1>7, <2>1, <2>2 DEF R!Untrusted
<1>9. R!Spoken \ (1 .. request \cup R!Places(b)) = {}
  BY <1>7
<1> QED BY <1>6, <1>7, <1>8, <1>9 DEF Good, Whole

-----------------------------------------------------------------------------
\* The prompt of an earlier question is what it was when the conversation goes on.
LEMMA WholeStays ==
  ASSUME NEW m, NEW n, NEW l \in Nat, NEW k \in Nat, l <= k, Len(m) = l, Len(n) = k,
         \A i \in 1 .. l : n[i] = m[i], NEW b, NEW q, Whole(b, m, q)
  PROVE  Whole(b, n, q)
<1> SUFFICES ASSUME b.via = "cloud", ~b.cut, b.dropped = 0
             PROVE  /\ q \in 1 .. Len(n) /\ b.covered \in Nat /\ b.covered < q
                    /\ b.middle = Asked(n, q, b.covered)
  BY DEF Whole
<1>1. /\ q \in 1 .. l /\ b.covered \in Nat /\ b.covered < q
      /\ b.middle = Asked(m, q, b.covered)
  BY DEF Whole
<1>2. \A i \in 1 .. q : i \in 1 .. l
  BY <1>1
<1>3. {i \in 1 .. q : m[i] # "empty"} = {i \in 1 .. q : n[i] # "empty"} /\ m[q] = n[q]
  BY <1>1, <1>2
<1>4. Talk(m, q, b.covered) = Talk(n, q, b.covered)
  BY <1>3 DEF Talk
<1>5. Asked(m, q, b.covered) = Asked(n, q, b.covered)
  BY <1>3, <1>4 DEF Asked
<1>6. q \in 1 .. Len(n)
  BY <1>1
<1> QED BY <1>1, <1>5, <1>6

LEMMA PromptInit == R!Init => PromptInv
<1> SUFFICES ASSUME R!Init PROVE PromptInv
  OBVIOUS
<1>1. /\ messages = <<>> /\ covered = 0 /\ request = 0 /\ stage = "idle"
      /\ body.via = "none"
  BY DEF R!Init, R!NoBody
<1>2. messages \in Seq(R!Kinds) /\ Len(messages) = 0 /\ DOMAIN messages = {}
  BY <1>1
<1> HIDE DEF R!Kinds
<1>3. Conversation
  BY <1>1, <1>2 DEF Conversation
<1>4. ~R!JustSent /\ Whole(body, messages, LastQuestion)
  BY <1>1 DEF R!JustSent, Whole
<1> QED BY <1>1, <1>3, <1>4 DEF PromptInv

\* A message more, when none is being answered.
LEMMA Longer ==
  ASSUME NEW m \in Seq(R!Kinds), NEW x \in R!Kinds
  PROVE  /\ Append(m, x) \in Seq(R!Kinds) /\ Len(Append(m, x)) = Len(m) + 1
         /\ DOMAIN Append(m, x) = 1 .. Len(m) + 1
         /\ \A i \in 1 .. Len(m) : Append(m, x)[i] = m[i]
         /\ Append(m, x)[Len(m) + 1] = x /\ DOMAIN m = 1 .. Len(m) /\ Len(m) \in Nat
BY DEF R!Kinds

LEMMA SayKeeps == ASSUME PromptInv, NEW k \in R!Kinds, R!Say(k) PROVE PromptInv'
<1>1. /\ stage = "idle" /\ stage' = "typed" /\ k # "empty"
      /\ messages' = Append(messages, k)
      /\ UNCHANGED <<covered, request, notice, body, before>>
  BY DEF R!Say
<1>2. PICK n : n = Len(messages)
  OBVIOUS
<1>3. /\ messages \in Seq(R!Kinds) /\ covered \in Nat /\ request \in Nat
      /\ n % 2 = 0
      /\ \A i \in DOMAIN messages : i % 2 = 1 => messages[i] # "empty"
      /\ covered = 0 \/ covered + KeepRecent <= n
      /\ Whole(body, messages, n - 1)
  BY <1>1, <1>2 DEF PromptInv, Conversation, LastQuestion
<1>4. /\ messages' \in Seq(R!Kinds) /\ Len(messages') = n + 1
      /\ DOMAIN messages' = 1 .. n + 1 /\ \A i \in 1 .. n : messages'[i] = messages[i]
      /\ messages'[n + 1] = k /\ DOMAIN messages = 1 .. n /\ n \in Nat
  BY <1>1, <1>2, <1>3, Longer
<1>5. Conversation'
  <2>1. (n + 1) % 2 = 1
    BY <1>3, <1>4
  <2>2. ASSUME NEW i \in 1 .. n + 1, i % 2 = 1 PROVE messages'[i] # "empty"
    <3>1. i \in 1 .. n \/ i = n + 1
      BY <1>4
    <3> QED BY <1>1, <1>3, <1>4, <2>2, <3>1
  <2>3. covered = 0 \/ covered + KeepRecent <= n + 1
    BY <1>3, <1>4, PromptAssumption
  <2> QED BY <1>1, <1>3, <1>4, <2>1, <2>2, <2>3 DEF Conversation
<1>6. Whole(body, messages, LastQuestion)'
  <2>1. Whole(body, messages', n - 1)
    <3>1. n + 1 \in Nat /\ n <= n + 1
      BY <1>4
    <3> QED BY <1>2, <1>3, <1>4, <3>1, WholeStays
  <2>2. LastQuestion' = n - 1
    BY <1>1, <1>4 DEF LastQuestion
  <2> QED BY <1>1, <2>1, <2>2 DEF Whole
<1>7. stage' # "prepared" /\ ~R!JustSent'
  BY <1>1 DEF R!JustSent
<1> QED BY <1>5, <1>6, <1>7 DEF PromptInv

LEMMA EditKeeps == ASSUME PromptInv, NEW j \in DOMAIN messages, R!Edit(j) PROVE PromptInv'
<1>1. /\ stage' = "typed" /\ j % 2 = 1 /\ messages' = SubSeq(messages, 1, j)
      /\ covered' = 0 /\ body' = R!NoBody /\ UNCHANGED request
  BY DEF R!Edit
<1>2. PICK n : n = Len(messages)
  OBVIOUS
<1>3. /\ messages \in Seq(R!Kinds) /\ request \in Nat
      /\ \A i \in DOMAIN messages : i % 2 = 1 => messages[i] # "empty"
  BY DEF PromptInv, Conversation
<1>4. n \in Nat /\ j \in 1 .. n /\ DOMAIN messages = 1 .. n
  BY <1>2, <1>3
<1>5. /\ messages' \in Seq(R!Kinds) /\ Len(messages') = j /\ DOMAIN messages' = 1 .. j
      /\ \A i \in 1 .. j : messages'[i] = messages[i]
  BY <1>1, <1>2, <1>3, <1>4 DEF R!Kinds
<1>6. Conversation'
  <2>1. \A i \in 1 .. j : i \in 1 .. n
    BY <1>4
  <2> QED BY <1>1, <1>3, <1>4, <1>5, <2>1 DEF Conversation
<1>7. body'.via = "none"
  BY <1>1 DEF R!NoBody
<1> QED BY <1>1, <1>6, <1>7 DEF PromptInv, R!JustSent, Whole

LEMMA ReplyKeeps == ASSUME PromptInv, NEW k \in R!Kinds, R!Reply(k) PROVE PromptInv'
<1>1. /\ stage = "sent" /\ stage' = "idle" /\ messages' = Append(messages, k)
      /\ UNCHANGED <<covered, request, notice, body, before>>
  BY DEF R!Reply
<1>2. PICK n : n = Len(messages)
  OBVIOUS
<1>3. /\ messages \in Seq(R!Kinds) /\ covered \in Nat /\ request \in Nat
      /\ n % 2 = 1
      /\ \A i \in DOMAIN messages : i % 2 = 1 => messages[i] # "empty"
      /\ covered = 0 \/ covered + KeepRecent <= n
      /\ Whole(body, messages, n)
  BY <1>1, <1>2 DEF PromptInv, Conversation, LastQuestion
<1>4. /\ messages' \in Seq(R!Kinds) /\ Len(messages') = n + 1
      /\ DOMAIN messages' = 1 .. n + 1 /\ \A i \in 1 .. n : messages'[i] = messages[i]
      /\ DOMAIN messages = 1 .. n /\ n \in Nat
  BY <1>1, <1>2, <1>3, Longer
<1>5. Conversation'
  <2>1. (n + 1) % 2 = 0
    BY <1>3, <1>4
  <2>2. ASSUME NEW i \in 1 .. n + 1, i % 2 = 1 PROVE messages'[i] # "empty"
    <3>1. i \in 1 .. n \/ i = n + 1
      BY <1>4
    <3>2. i # n + 1
      BY <2>1, <2>2
    <3> QED BY <1>3, <1>4, <2>2, <3>1, <3>2
  <2>3. covered = 0 \/ covered + KeepRecent <= n + 1
    BY <1>3, <1>4, PromptAssumption
  <2> QED BY <1>1, <1>3, <1>4, <2>1, <2>2, <2>3 DEF Conversation
<1>6. Whole(body, messages, LastQuestion)'
  <2>1. Whole(body, messages', n)
    <3>1. n + 1 \in Nat /\ n <= n + 1
      BY <1>4
    <3> QED BY <1>2, <1>3, <1>4, <3>1, WholeStays
  <2>2. LastQuestion' = n
    BY <1>1, <1>4 DEF LastQuestion
  <2> QED BY <1>1, <2>1, <2>2 DEF Whole
<1>7. stage' # "prepared" /\ ~R!JustSent'
  BY <1>1 DEF R!JustSent
<1> QED BY <1>5, <1>6, <1>7 DEF PromptInv

\* What a preparation leaves: all that the summary stands for and no more is left
\* out, or the user is told.
LEMMA PrepareLeaves ==
  ASSUME Conversation, NEW works \in BOOLEAN, R!Prepare(works)
  PROVE  /\ stage = "typed" /\ UNCHANGED <<messages, before>>
         /\ covered' \in Nat /\ request' \in Nat
         /\ covered' = 0 \/ covered' + KeepRecent <= Len(messages)
         /\ \/ /\ stage' = "prepared" /\ body' = body
               /\ request' < Len(messages) /\ (notice' \/ request' = covered')
            \/ stage' = "sent" /\ body' = R!NoBody
<1>1. PICK n, weigh, end, from :
        /\ n = Len(messages) /\ end = n - R!Least(KeepRecent, n)
        /\ from = R!Least(covered, end) /\ weigh = R!WeightOf(from + 1 .. n)
  OBVIOUS
<1>2. /\ n \in Nat /\ n % 2 = 1 /\ covered \in Nat /\ request \in Nat
      /\ covered = 0 \/ covered + KeepRecent <= n
  BY <1>1 DEF R!Prepare, Conversation
<1>3. n # 0 /\ KeepRecent \in Nat \ {0}
  BY <1>2, PromptAssumption
<1>4. /\ end \in Nat /\ end < n /\ from = covered /\ covered <= end
      /\ end = 0 \/ end + KeepRecent <= n
  BY <1>1, <1>2, <1>3 DEF R!Least
<1>5. stage = "typed" /\ UNCHANGED <<messages, before>>
  BY DEF R!Prepare
<1>6. \/ stage' = "prepared" /\ request' \in {covered, from} /\ UNCHANGED <<covered, body>>
      \/ stage' = "prepared" /\ request' = end /\ covered' = end /\ body' = body
      \/ stage' = "sent" /\ body' = R!NoBody /\ request' = request /\ covered' = covered
      \/ /\ stage' = "prepared" /\ covered' = covered /\ body' = body
         /\ request' = IF notice' THEN end ELSE from
  BY <1>1 DEF R!Prepare, R!Prepared, R!Compressed, R!SmallDelta
<1>7. CASE stage' = "sent" /\ body' = R!NoBody /\ request' = request /\ covered' = covered
  BY <1>1, <1>2, <1>5, <1>7
<1>8. CASE stage' = "prepared" /\ request' \in {covered, from} /\ covered' = covered /\ body' = body
  BY <1>1, <1>2, <1>4, <1>5, <1>8
<1>9. CASE stage' = "prepared" /\ request' = end /\ covered' = end /\ body' = body
  BY <1>1, <1>2, <1>4, <1>5, <1>9
<1>10. CASE /\ stage' = "prepared" /\ covered' = covered /\ body' = body
            /\ request' = IF notice' THEN end ELSE from
  BY <1>1, <1>2, <1>4, <1>5, <1>10
<1> QED BY <1>6, <1>7, <1>8, <1>9, <1>10

LEMMA PrepareKeeps ==
  ASSUME PromptInv, NEW works \in BOOLEAN, R!Prepare(works) \/ R!Post PROVE PromptInv'
<1>1. /\ stage = "typed" /\ UNCHANGED <<messages, before>>
      /\ covered' \in Nat /\ request' \in Nat
      /\ covered' = 0 \/ covered' + KeepRecent <= Len(messages)
      /\ \/ /\ stage' = "prepared" /\ body' = body
            /\ request' < Len(messages) /\ (notice' \/ request' = covered')
         \/ stage' = "sent" /\ body' = R!NoBody
  <2>1. CASE R!Prepare(works)
    BY <2>1, PrepareLeaves DEF PromptInv
  <2>2. CASE R!Post
    <3>1. /\ stage = "typed" /\ stage' = "prepared" /\ request' = 0 /\ covered = 0
          /\ UNCHANGED <<messages, covered, body, before>>
      BY <2>2 DEF R!Post, R!Prepared
    <3>2. Len(messages) \in Nat /\ Len(messages) % 2 = 1
      BY <3>1 DEF PromptInv, Conversation
    <3>3. 0 < Len(messages)
      BY <3>2
    <3> QED BY <3>1, <3>3
  <2> QED BY <2>1, <2>2
<1>2. Conversation'
  BY <1>1 DEF PromptInv, Conversation
<1>3. CASE stage' = "sent" /\ body' = R!NoBody
  <2>1. body'.via = "none"
    BY <1>3 DEF R!NoBody
  <2> QED BY <1>2, <1>3, <2>1 DEF PromptInv, R!JustSent, Whole
<1>4. CASE /\ stage' = "prepared" /\ body' = body
           /\ request' < Len(messages) /\ (notice' \/ request' = covered')
  <2>1. Whole(body, messages, LastQuestion) /\ LastQuestion' = LastQuestion
    BY <1>1, <1>4 DEF PromptInv, LastQuestion
  <2>2. Whole(body, messages, LastQuestion)'
    BY <1>1, <1>4, <2>1 DEF Whole
  <2>3. ~R!JustSent'
    BY <1>4 DEF R!JustSent
  <2> QED BY <1>1, <1>2, <1>4, <2>2, <2>3 DEF PromptInv
<1> QED BY <1>1, <1>3, <1>4

\* A good prompt stays so if nothing of the conversation changes.
LEMMA GoodStays ==
  ASSUME UNCHANGED <<messages, covered, request, notice>>, NEW b, Good(b), body' = b
  PROVE  Good(body)'
<1>1. R!Places(body)' = R!Places(b) /\ R!Spoken' = R!Spoken
  BY DEF R!Places, R!Spoken
<1>2. \A S, m : R!Fits(S, m)' <=> R!Fits(S, m)
  BY DEF R!Fits, R!WeightOf, R!Number
<1> QED BY <1>1, <1>2 DEF Good, Whole

LEMMA SendKeeps == ASSUME PromptInv, NEW s \in Settings, R!Send(s) PROVE PromptInv'
<1>1. /\ stage = "prepared" /\ stage' = "sent" /\ before' = body
      /\ body' \in {R!NoBody, R!CloudBody(s), R!EdgeBody(s)}
      /\ UNCHANGED <<messages, covered, request, failed, notice>>
  <2> DEFINE route == IF R!TooLong THEN "refused" ELSE R!Route(s, s.cloudUp)
  <2>1. route \in {"refused", "cloud", "edge"}
    BY DEF R!Route
  <2>2. body' = CASE route = "refused" -> R!NoBody
                  [] route = "cloud" -> R!CloudBody(s) [] route = "edge" -> R!EdgeBody(s)
    BY DEF R!Send
  <2> HIDE DEF route
  <2>3. body' \in {R!NoBody, R!CloudBody(s), R!EdgeBody(s)}
    BY <2>1, <2>2
  <2> QED BY <2>3 DEF R!Send
<1>2. /\ Conversation /\ request < Len(messages) /\ (notice \/ request = covered)
      /\ Whole(body, messages, Len(messages) - 2)
  BY <1>1 DEF PromptInv, LastQuestion
<1>3. Conversation'
  BY <1>1, <1>2 DEF Conversation
<1>4. Whole(before, messages, Len(messages) - 2)'
  BY <1>1, <1>2 DEF Whole
<1>5. request' < Len(messages') /\ (notice' \/ request' = covered')
  BY <1>1, <1>2
<1>6. CASE body' = R!NoBody
  <2>1. body'.via = "none"
    BY <1>6 DEF R!NoBody
  <2> QED BY <1>1, <1>3, <1>5, <2>1 DEF PromptInv, R!JustSent, Whole
<1>7. CASE body' \in {R!CloudBody(s), R!EdgeBody(s)}
  <2>1. PICK b : body' = b
    OBVIOUS
  <2>2. Good(b)
    BY <1>1, <1>2, <1>7, <2>1, CloudIsGood, EdgeIsGood
  <2>3. Good(body)'
    BY <1>1, <2>1, <2>2, GoodStays
  <2>4. Whole(body, messages, Len(messages))'
    BY <2>3 DEF Good
  <2>5. LastQuestion' = Len(messages')
    BY <1>1 DEF LastQuestion
  <2>6. Whole(body, messages, LastQuestion)'
    BY <2>4, <2>5 DEF Whole
  <2> QED BY <1>1, <1>3, <1>4, <1>5, <2>3, <2>6 DEF PromptInv
<1> QED BY <1>1, <1>6, <1>7

LEMMA FallBackKeeps == ASSUME PromptInv, NEW s \in Settings, R!FallBack(s) PROVE PromptInv'
<1>1. /\ stage = "sent" /\ body.via = "cloud" /\ body' = R!EdgeBody(s)
      /\ UNCHANGED <<messages, covered, request, stage, failed, notice, before>>
  BY DEF R!FallBack
<1>2. /\ Conversation /\ request < Len(messages) /\ (notice \/ request = covered)
      /\ Whole(before, messages, Len(messages) - 2)
  BY <1>1 DEF PromptInv, R!JustSent
<1>3. PICK b : body' = b
  OBVIOUS
<1>4. Good(b)
  BY <1>1, <1>2, <1>3, EdgeIsGood
<1>5. Good(body)'
  BY <1>1, <1>3, <1>4, GoodStays
<1>6. Whole(body, messages, LastQuestion)'
  BY <1>1, <1>5 DEF Good, LastQuestion, Whole
<1>7. Conversation' /\ Whole(before, messages, Len(messages) - 2)'
  BY <1>1, <1>2 DEF Conversation, Whole
<1> QED BY <1>1, <1>2, <1>5, <1>6, <1>7 DEF PromptInv

LEMMA PromptKeeps == PromptInv /\ [R!Next]_(R!vars) => PromptInv'
<1> SUFFICES ASSUME PromptInv, [R!Next]_(R!vars) PROVE PromptInv'
  OBVIOUS
<1>1. CASE UNCHANGED R!vars
  <2>1. UNCHANGED <<messages, covered, request, stage, failed, notice, body, before>>
    BY <1>1 DEF R!vars
  <2>2. Conversation'
    BY <2>1 DEF PromptInv, Conversation
  <2>3. R!JustSent' = R!JustSent /\ LastQuestion' = LastQuestion
    BY <2>1 DEF R!JustSent, LastQuestion
  <2>4. R!JustSent => Good(body)'
    <3>1. PICK b : b = body
      OBVIOUS
    <3> QED BY <2>1, <3>1, GoodStays DEF PromptInv
  <2>5. /\ Whole(body, messages, LastQuestion)'
        /\ R!JustSent => Whole(before, messages, Len(messages) - 2)'
    BY <2>1, <2>3 DEF PromptInv, Whole
  <2> QED BY <2>1, <2>2, <2>3, <2>4, <2>5 DEF PromptInv
<1>2. ASSUME NEW k \in R!Kinds, R!Say(k) \/ R!Reply(k) PROVE PromptInv'
  BY <1>2, SayKeeps, ReplyKeeps
<1>3. ASSUME NEW j \in DOMAIN messages, R!Edit(j) PROVE PromptInv'
  BY <1>3, EditKeeps
<1>4. ASSUME NEW works \in BOOLEAN, R!Prepare(works) \/ R!Post PROVE PromptInv'
  BY <1>4, PrepareKeeps
<1>5. ASSUME NEW s \in Settings, R!Send(s) \/ R!FallBack(s) PROVE PromptInv'
  BY <1>5, SendKeeps, FallBackKeeps
<1>6. R!Full => UNCHANGED R!vars
  BY DEF R!Full
<1> QED BY <1>1, <1>2, <1>3, <1>4, <1>5, <1>6 DEF R!Next

\* The last prompt is right for the conversation it was made from, and so was the one
\* before (chat.js with build_deepseek_request).
THEOREM PromptsInvariant == R!Spec => []PromptInv
BY PromptInit, PromptKeeps, PTL DEF R!Spec

\* Whatever the browser has summarised and the gateway drops: the question and,
\* without a gap, what was said before it is in the prompt; pixels go to the model
\* that sees; what is reported as untrusted is what is there.
THEOREM PromptsWhole == R!Spec => []PromptIsWhole
<1>1. PromptInv => PromptIsWhole
  BY DEF PromptInv, Good, PromptIsWhole, R!PromptIsWhole, R!Question
<1> QED BY <1>1, PromptsInvariant, PTL

\* The prompt of the question before is the beginning of the prompt of this one.
LEMMA AskedBegins ==
  ASSUME NEW m, NEW q \in Nat, NEW c \in Nat, c < q - 2, m[q] # "empty",
         NEW old, NEW new, old = Asked(m, q - 2, c), new = Asked(m, q, c)
  PROVE  /\ Len(old) < Len(new)
         /\ \A k \in DOMAIN old :
              \/ old[k] = new[k]
              \/ old[k] = [new[k] EXCEPT !.as = "pixels"] /\ k = Len(old)
<1>1. PICK short, long : short = Talk(m, q - 2, c) /\ long = Talk(m, q, c)
  OBVIOUS
<1>2. q - 2 \in Nat /\ c < q
  OBVIOUS
<1>3. IsTalk(short, m, q - 2, c) /\ IsTalk(long, m, q, c)
  BY <1>1, <1>2, TalkFacts
<1>4. /\ short \in Seq(Nat) /\ Len(short) \in Nat /\ long \in Seq(Nat) /\ Len(long) \in Nat
      /\ \A k, l \in 1 .. Len(short) : k < l => short[k] < short[l]
      /\ \A x \in ToSet(short) : c < x /\ x <= q - 2
  BY <1>3 DEF IsTalk, Ascends
<1>5. q \in ToSet(long)
  BY <1>2, <1>3 DEF IsTalk
<1>6. /\ Len(short) <= Len(long)
      /\ \A k \in 1 .. Len(short) : short[k] = long[k]
  <2> DEFINE s == [k \in 1 .. (q - 2) - c |-> c + k]
             l == [k \in 1 .. q - c |-> c + k]
             S == {i \in 1 .. q - 2 : m[i] # "empty"}
             L == {i \in 1 .. q : m[i] # "empty"}
  <2>1. /\ s \in Seq(Nat) /\ l \in Seq(Nat) /\ Len(s) = q - 2 - c /\ Len(l) = q - c
        /\ Len(s) <= Len(l)
    OBVIOUS
  <2>2. \A k \in 1 .. Len(s) : s[k] = l[k] /\ s[k] = c + k /\ c + k \in 1 .. q - 2 /\ c + k \in 1 .. q
    OBVIOUS
  <2>3. \A k \in 1 .. Len(s) : s[k] = l[k] /\ (s[k] \in S <=> l[k] \in L)
    BY <2>2
  <2>4. short = Among(s, S) /\ long = Among(l, L)
    BY <1>1 DEF Talk
  <2> HIDE DEF s, l, S, L
  <2>5. PICK a, b : a = Among(s, S) /\ b = Among(l, L)
    OBVIOUS
  <2>6. /\ Len(Among(s, S)) <= Len(Among(l, L))
        /\ \A k \in 1 .. Len(Among(s, S)) : Among(s, S)[k] = Among(l, L)[k]
    BY <2>1, <2>3, AmongBegins
  <2>7. Len(a) <= Len(b) /\ \A k \in 1 .. Len(a) : a[k] = b[k]
    BY <2>5, <2>6
  <2> QED BY <2>4, <2>5, <2>7
<1>7. Len(short) < Len(long)
  <2> SUFFICES ASSUME Len(short) = Len(long) PROVE FALSE
    BY <1>4, <1>6
  <2>1. PICK k \in 1 .. Len(long) : long[k] = q
    BY <1>4, <1>5 DEF ToSet
  <2>2. short[k] = q /\ k \in DOMAIN short
    BY <1>4, <1>6, <2>1
  <2>3. q \in ToSet(short)
    BY <2>2 DEF ToSet
  <2> QED BY <1>4, <2>3
<1>8. DOMAIN old = 1 .. Len(short) /\ DOMAIN new = 1 .. Len(long)
  BY <1>1, <1>4 DEF Asked
<1>9. Len(old) = Len(short) /\ Len(new) = Len(long)
  BY <1>4, <1>8
<1>10. ASSUME NEW k \in 1 .. Len(short)
       PROVE  \/ old[k] = new[k]
              \/ old[k] = [new[k] EXCEPT !.as = "pixels"] /\ k = Len(short)
  <2>1. PICK x : x = short[k]
    OBVIOUS
  <2>2. x = long[k] /\ x \in ToSet(short) /\ x \in Nat /\ k \in 1 .. Len(long)
    BY <1>4, <1>6, <2>1 DEF ToSet
  <2>3. x <= q - 2 /\ x # q
    BY <1>4, <2>2
  <2>4. new[k] = [at |-> x, as |-> "text", with |-> <<>>]
    BY <1>1, <1>8, <2>2, <2>3 DEF Asked
  <2>5. old[k] = [at |-> x, as |-> IF x = q - 2 /\ m[q - 2] = "picture" THEN "pixels" ELSE "text",
                  with |-> <<>>]
    BY <1>1, <1>8, <2>1 DEF Asked
  <2>6. CASE x # q - 2 \/ m[q - 2] # "picture"
    BY <2>4, <2>5, <2>6
  <2>7. CASE x = q - 2 /\ m[q - 2] = "picture"
    <3>1. old[k] = [at |-> x, as |-> "pixels", with |-> <<>>]
      BY <2>5, <2>7
    <3>2. [new[k] EXCEPT !.as = "pixels"] = [at |-> x, as |-> "pixels", with |-> <<>>]
      BY <2>4
    <3>3. k = Len(short)
      <4> SUFFICES ASSUME k # Len(short) PROVE FALSE
        OBVIOUS
      <4>1. Len(short) \in 1 .. Len(short) /\ k < Len(short)
        BY <1>4
      <4>2. short[k] < short[Len(short)] /\ short[Len(short)] \in ToSet(short)
        BY <1>4, <4>1 DEF ToSet
      <4>3. short[Len(short)] <= q - 2 /\ short[Len(short)] \in Nat
        BY <1>4, <4>1, <4>2
      <4> QED BY <2>1, <2>7, <4>2, <4>3
    <3> QED BY <3>1, <3>2, <3>3
  <2> QED BY <2>6, <2>7
<1> QED BY <1>7, <1>8, <1>9, <1>10

\* For any conversation, also with answers that were empty and questions that were
\* edited: the provider finds the last prompt at the beginning of the next one.
THEOREM PrefixHolds == R!Spec => []PrefixKept
<1>1. PromptInv => PrefixKept
  <2> SUFFICES ASSUME PromptInv, R!JustSent, body.via = "cloud", before.via = "cloud",
                      body.covered = before.covered, ~body.cut, ~before.cut,
                      body.dropped = 0, before.dropped = 0
               PROVE  /\ Len(before.middle) < Len(body.middle)
                      /\ \A k \in DOMAIN before.middle :
                           \/ before.middle[k] = body.middle[k]
                           \/ /\ before.middle[k] = [body.middle[k] EXCEPT !.as = "pixels"]
                              /\ k = Len(before.middle)
    BY DEF PrefixKept, R!PrefixKept
  <2>1. PICK q, c : q = Len(messages) /\ c = before.covered
    OBVIOUS
  <2>2. Whole(body, messages, q) /\ Whole(before, messages, q - 2)
    BY <2>1 DEF PromptInv, Good
  <2>3. /\ body.middle = Asked(messages, q, c) /\ c \in Nat
        /\ before.middle = Asked(messages, q - 2, c) /\ c < q - 2
    BY <2>1, <2>2 DEF Whole
  <2>4. messages[q] # "empty" /\ q \in Nat
    BY <2>1, QuestionSaid DEF PromptInv, R!JustSent
  <2> QED BY <2>3, <2>4, AskedBegins
<1> QED BY <1>1, PromptsInvariant, PTL

\* With a summary, what a compression that did not fail sends fits the window.
WithinWindow ==
  /\ PromptInv
  /\ (stage = "prepared" \/ R!JustSent) /\ ~failed /\ ~notice /\ covered # 0 =>
       Len(messages) - request + 2 <= WindowMessages

LEMMA WindowKeeps ==
  ASSUME TriggerMessages % 2 = 0, TriggerMessages <= WindowMessages, MinDelta >= 1,
         KeepRecent + MinDelta + 1 <= WindowMessages,
         WithinWindow, [R!Next]_(R!vars)
  PROVE  WithinWindow'
<1> DEFINE Within == Len(messages) - request + 2 <= WindowMessages
<1>1. PromptInv'
  BY PromptKeeps DEF WithinWindow
<1>2. ASSUME NEW works \in BOOLEAN, R!Prepare(works), stage' = "prepared", ~failed', ~notice',
             covered' # 0
      PROVE  Within'
  <2>1. PICK n, end, from :
          /\ n = Len(messages) /\ end = n - R!Least(KeepRecent, n) /\ from = R!Least(covered, end)
    OBVIOUS
  <2>2. /\ n \in Nat /\ n % 2 = 1 /\ covered \in Nat
        /\ covered = 0 \/ covered + KeepRecent <= n
    BY <1>2, <2>1 DEF R!Prepare, Conversation, WithinWindow, PromptInv
  <2>3. n # 0 /\ KeepRecent \in Nat \ {0} /\ MinDelta \in Nat /\ WindowMessages \in Nat
        /\ TriggerMessages \in Nat
    BY <2>2, PromptAssumption
  <2>4. /\ end \in Nat /\ from = covered /\ n - end <= KeepRecent
    BY <2>1, <2>2, <2>3 DEF R!Least
  <2>5. messages' = messages
    BY <1>2 DEF R!Prepare
  <2>6. \/ n <= TriggerMessages /\ request' = covered /\ covered' = covered
        \/ (from = end \/ end - from < MinDelta) /\ request' = from
        \/ request' = end
    BY <1>2, <2>1, <2>3 DEF R!Prepare, R!Prepared, R!Compressed, R!SmallDelta
  <2>7. CASE n <= TriggerMessages /\ request' = covered /\ covered' = covered
    <3>1. n < TriggerMessages /\ covered >= 1
      BY <1>2, <2>2, <2>3, <2>7
    <3> QED BY <2>1, <2>2, <2>3, <2>5, <2>7, <3>1
  <2>8. CASE (from = end \/ end - from < MinDelta) /\ request' = from
    BY <2>1, <2>2, <2>3, <2>4, <2>5, <2>8
  <2>9. CASE request' = end
    BY <2>1, <2>2, <2>3, <2>4, <2>5, <2>9
  <2> QED BY <2>6, <2>7, <2>8, <2>9
<1>3. ASSUME (stage = "prepared" \/ R!JustSent)', ~failed', ~notice', covered' # 0
      PROVE  Within'
  <2>1. CASE UNCHANGED R!vars
    BY <1>3, <2>1 DEF R!vars, R!JustSent, WithinWindow
  <2>2. ASSUME NEW k \in R!Kinds, R!Say(k) \/ R!Reply(k) PROVE FALSE
    BY <1>3, <2>2 DEF R!Say, R!Reply, R!JustSent
  <2>3. ASSUME NEW j \in DOMAIN messages, R!Edit(j) PROVE FALSE
    BY <1>3, <2>3 DEF R!Edit, R!JustSent
  <2>4. ASSUME NEW works \in BOOLEAN, R!Prepare(works) PROVE Within'
    <3>1. stage' = "prepared"
      <4>1. Conversation
        BY DEF WithinWindow, PromptInv
      <4>2. stage' = "prepared" \/ (stage' = "sent" /\ body' = R!NoBody)
        BY <2>4, <4>1, PrepareLeaves
      <4>3. body' = R!NoBody => body'.via = "none"
        BY DEF R!NoBody
      <4> QED BY <1>3, <4>2, <4>3 DEF R!JustSent
    <3> QED BY <1>2, <1>3, <2>4, <3>1
  <2>5. CASE R!Post
    BY <1>3, <2>5 DEF R!Post
  <2>6. ASSUME NEW s \in Settings, R!Send(s) PROVE Within'
    BY <1>3, <2>6 DEF R!Send, WithinWindow
  <2>7. ASSUME NEW s \in Settings, R!FallBack(s) PROVE Within'
    BY <1>3, <2>7 DEF R!FallBack, R!JustSent, WithinWindow
  <2>8. R!Full => UNCHANGED R!vars
    BY DEF R!Full
  <2> HIDE DEF Within
  <2> QED BY <2>1, <2>2, <2>3, <2>4, <2>5, <2>6, <2>7, <2>8 DEF R!Next
<1> QED BY <1>1, <1>3 DEF WithinWindow

\* Nothing is forgotten, if the browser summarises before the gateway cuts: the limits
\* of chat.js (36 messages, the last 16 kept, 4 at least to summarise) and of config.py
\* (36 messages) are so. The browser's are fixed and the gateway's is not; with a
\* smaller window of the gateway the property does not hold.
THEOREM NothingIsForgotten ==
  ASSUME TriggerMessages % 2 = 0, TriggerMessages <= WindowMessages, MinDelta >= 1,
         KeepRecent + MinDelta + 1 <= WindowMessages
  PROVE  R!Spec => []NothingForgotten
<1>1. R!Init => WithinWindow
  <2> SUFFICES ASSUME R!Init PROVE WithinWindow
    OBVIOUS
  <2>1. stage = "idle"
    BY DEF R!Init
  <2> QED BY <2>1, PromptInit DEF WithinWindow, R!JustSent
<1>2. WithinWindow /\ [R!Next]_(R!vars) => WithinWindow'
  BY WindowKeeps
<1>3. WithinWindow => NothingForgotten
  <2> SUFFICES ASSUME WithinWindow, R!JustSent, ~notice, ~failed,
                      NEW missing, missing = R!Spoken \ (1 .. covered \cup R!Places(body))
               PROVE  /\ R!Places(body) \cap 1 .. covered = {}
                      /\ missing # {} => /\ body.via = "cloud"
                                         /\ ~R!Fits(missing \cup R!Places(body), body.model)
    BY DEF NothingForgotten, R!NothingForgotten
  <2>1. request = covered /\ Good(body)
    BY DEF WithinWindow, PromptInv
  <2>2. covered = 0 \/ Len(messages) - request + 2 <= WindowMessages
    BY DEF WithinWindow
  <2> QED BY <2>1, <2>2 DEF Good
<1> QED BY <1>1, <1>2, <1>3, PTL DEF R!Spec

-----------------------------------------------------------------------------
(***************************************************************************)
(* The text of a file.  Its parts, one after the other, are the whole.     *)
(***************************************************************************)
LEMMA ScanInOrder == ASSUME NEW S, NEW less PROVE T!InOrder(S, less) = InOrder(S, less)
<1> DEFINE their(k) == CHOOSE i \in S : T!Cardinality({j \in S : j = i \/ <<j, i>> \in less}) = k
           ours(k)  == CHOOSE i \in S : Cardinality({j \in S : j = i \/ <<j, i>> \in less}) = k
<1>1. \A X : T!Cardinality(X) = Cardinality(X)
  BY DEF T!Cardinality, Cardinality
<1>2. \A k : their(k) = ours(k)
  <2> TAKE k
  <2>1. \A i : (i \in S /\ T!Cardinality({j \in S : j = i \/ <<j, i>> \in less}) = k)
              <=> (i \in S /\ Cardinality({j \in S : j = i \/ <<j, i>> \in less}) = k)
    BY <1>1
  <2> QED BY <2>1
<1>3. InOrder(S, less) = [k \in 1 .. Cardinality(S) |-> ours(k)]
  BY DEF InOrder
<1>4. T!InOrder(S, less) = [k \in 1 .. T!Cardinality(S) |-> their(k)]
  BY DEF T!InOrder
<1>5. T!Cardinality(S) = Cardinality(S)
  BY <1>1
<1> HIDE DEF their, ours
<1> QED BY <1>2, <1>3, <1>4, <1>5

LEMMA ScanAmong == ASSUME NEW seq, NEW S PROVE T!Among(seq, S) = Among(seq, S)
<1> DEFINE kept == {i \in DOMAIN seq : seq[i] \in S}
           less == {x \in kept \X kept : x[1] < x[2]}
<1>1. T!InOrder(kept, less) = InOrder(kept, less)
  BY ScanInOrder
<1>2. /\ Among(seq, S) = [k \in DOMAIN InOrder(kept, less) |-> seq[InOrder(kept, less)[k]]]
      /\ T!Among(seq, S) = [k \in DOMAIN T!InOrder(kept, less) |-> seq[T!InOrder(kept, less)[k]]]
  BY DEF Among, T!Among
<1> HIDE DEF kept, less
<1> QED BY <1>1, <1>2

LEMMA ScanLists ==
  /\ \A s : T!FlattenSeq(s) = FlattenSeq(s) /\ T!ToSet(s) = ToSet(s)
  /\ \A S : T!Cardinality(S) = Cardinality(S)
<1>1. \A S : T!Cardinality(S) = Cardinality(S)
  BY DEF T!Cardinality, Cardinality
<1>2. \A s : T!FlattenSeq(s) = FlattenSeq(s)
  BY DEF T!FlattenSeq, FlattenSeq
<1>3. \A s : T!ToSet(s) = ToSet(s)
  BY DEF T!ToSet, ToSet
<1> QED
  BY <1>1, <1>2, <1>3

LEMMA Rejoined ==
  ASSUME NEW D, NEW s \in Seq(D), NEW a \in 0 .. Len(s), NEW b \in a .. Len(s)
  PROVE  SubSeq(s, 1, b) = SubSeq(s, 1, a) \o SubSeq(s, a + 1, b)
<1> DEFINE x == SubSeq(s, 1, b)
           y == SubSeq(s, 1, a)
           z == SubSeq(s, a + 1, b)
<1>1. /\ x \in Seq(D) /\ Len(x) = b /\ \A i \in 1 .. b : x[i] = s[i]
      /\ y \in Seq(D) /\ Len(y) = a /\ \A i \in 1 .. a : y[i] = s[i]
      /\ z \in Seq(D) /\ Len(z) = b - a /\ \A i \in 1 .. b - a : z[i] = s[a + i]
  OBVIOUS
<1> HIDE DEF x, y, z
<1>2. y \o z \in Seq(D) /\ Len(y \o z) = b
  BY <1>1
<1>3. ASSUME NEW i \in 1 .. b PROVE (y \o z)[i] = s[i]
  <2>1. CASE i <= a
    <3>1. i \in 1 .. a
      BY <2>1
    <3>2. y[i] = s[i]
      BY <1>1, <3>1
    <3>3. (y \o z)[i] = y[i]
      BY <1>1, <3>1
    <3> QED
      BY <3>2, <3>3
  <2>2. CASE i > a
    <3>1. i - a \in 1 .. b - a /\ a + (i - a) = i
      BY <2>2
    <3>2. (y \o z)[i] = z[i - a]
      BY <1>1, <2>2
    <3> QED
      BY <1>1, <3>1, <3>2
  <2>3. i <= a \/ i > a
    BY Len(s) \in Nat
  <2> QED BY <2>1, <2>2, <2>3
<1> QED
  BY <1>1, <1>2, <1>3 DEF x, y, z

LEMMA SplitWhole ==
  ASSUME NEW D, NEW whole \in Seq(D), NEW count \in Nat \ {0}
  PROVE  /\ T!Split(whole, count) \in Seq(Seq(D)) /\ Len(T!Split(whole, count)) = count
         /\ FlattenSeq(T!Split(whole, count)) = whole
<1> DEFINE L == Len(whole)
           part == IF L \div count = 0 THEN 1 ELSE L \div count
           upTo(p) == IF p = count \/ p * part > L THEN L ELSE p * part
           end(p) == IF p = 0 THEN 0 ELSE upTo(p)
           parts == T!Split(whole, count)
           t == [p \in 0 .. count |-> SubSeq(whole, 1, end(p))]
<1>1. L \in Nat /\ part \in Nat /\ part > 0
  <2>1. L \in Nat
    OBVIOUS
  <2> HIDE DEF L
  <2>2. L \div count \in Nat
    BY <2>1
  <2> QED BY <2>1, <2>2
<1>2. parts = [p \in 1 .. count |-> SubSeq(whole, (p - 1) * part + 1, upTo(p))]
  BY DEF T!Split
<1> HIDE DEF parts, part, L
<1>3. ASSUME NEW p \in 0 .. count PROVE p * part \in Nat /\ end(p) \in 0 .. L
  <2>1. p * part \in Nat
    BY <1>1
  <2> QED
    BY <1>1, <2>1
<1>4. ASSUME NEW p \in 1 .. count
      PROVE  /\ parts[p] = SubSeq(whole, (p - 1) * part + 1, end(p)) /\ parts[p] \in Seq(D)
             /\ SubSeq(whole, 1, end(p)) = SubSeq(whole, 1, end(p - 1)) \o parts[p]
  <2> DEFINE a == (p - 1) * part
  <2>1. /\ p - 1 \in 0 .. count /\ p \in 0 .. count /\ p # 0 /\ p - 1 # count
        /\ a \in Nat /\ p * part \in Nat /\ end(p) \in 0 .. L /\ end(p - 1) \in 0 .. L
    BY <1>3
  <2>2. p * part = a + part
    BY <1>1
  <2>3. parts[p] = SubSeq(whole, a + 1, end(p))
    BY <1>2, <2>1
  <2>4. parts[p] \in Seq(D)
    <3>1. end(p) \in 0 .. Len(whole)
      BY <2>1 DEF L
    <3> HIDE DEF a, end
    <3> QED
      BY <2>1, <2>3, <3>1
  <2>5. CASE a <= L
    <3>1. end(p - 1) = a
      <4>1. CASE p - 1 = 0
        <5>1. a = 0
          BY <1>1, <4>1
        <5> QED BY <4>1, <5>1
      <4>2. CASE p - 1 # 0
        <5>1. upTo(p - 1) = a
          BY <1>1, <2>1, <2>5
        <5> QED BY <4>2, <5>1
      <4> QED BY <4>1, <4>2
    <3>2. end(p) \in a .. L
      <4>1. end(p) = L \/ end(p) = a + part
        BY <2>1, <2>2
      <4> HIDE DEF end, a
      <4> QED
        BY <1>1, <2>1, <2>5, <4>1
    <3>3. a \in 0 .. Len(whole) /\ end(p) \in a .. Len(whole)
      BY <2>1, <2>5, <3>2 DEF L
    <3> HIDE DEF end, a
    <3>4. SubSeq(whole, 1, end(p)) = SubSeq(whole, 1, a) \o SubSeq(whole, a + 1, end(p))
      BY <3>3, Rejoined
    <3> QED
      BY <2>3, <2>4, <3>1, <3>4 DEF a
  <2>6. CASE a > L
    <3>1. p - 1 # 0
      <4>1. SUFFICES ASSUME p - 1 = 0 PROVE a = 0
        BY <1>1, <2>6
      <4> QED BY <1>1, <4>1
    <3>2. end(p - 1) = L
      BY <2>6, <3>1
    <3>3. p * part > L
      BY <1>1, <2>1, <2>2, <2>6
    <3>4. end(p) = L
      BY <2>1, <3>3
    <3>5. SubSeq(whole, a + 1, L) = <<>>
      <4> HIDE DEF a
      <4> QED BY <1>1, <2>1, <2>6
    <3>6. SubSeq(whole, 1, L) \in Seq(D)
      BY DEF L
    <3>7. SubSeq(whole, 1, L) = SubSeq(whole, 1, L) \o <<>>
      BY <3>6
    <3> HIDE DEF end, a
    <3> QED
      BY <2>3, <2>4, <3>2, <3>4, <3>5, <3>7 DEF a
  <2>7. SubSeq(whole, 1, end(p)) = SubSeq(whole, 1, end(p - 1)) \o parts[p]
    <3> HIDE DEF end
    <3>1. a <= L \/ a > L
      BY <1>1, <2>1
    <3> QED
      BY <2>5, <2>6, <3>1
  <2> HIDE DEF end
  <2> QED
    BY <2>3, <2>4, <2>7
<1> HIDE DEF end
<1>5. parts \in Seq(Seq(D)) /\ Len(parts) = count
  <2>1. DOMAIN parts = 1 .. count /\ parts = [p \in 1 .. count |-> parts[p]]
    BY <1>2
  <2>2. parts \in [1 .. count -> Seq(D)]
    BY <1>4, <2>1
  <2>3. parts \in Seq(Seq(D))
    BY <2>2
  <2> QED
    BY <2>1, <2>3
<1>6. Partials(t, parts, D)
  <2>1. \A p \in 0 .. count : SubSeq(whole, 1, end(p)) \in Seq(D)
    BY <1>3 DEF L
  <2>2. SubSeq(whole, 1, end(0)) = <<>>
    BY DEF end
  <2>3. \A p \in 1 .. count : p \in 0 .. count /\ p - 1 \in 0 .. count
    OBVIOUS
  <2>4. \A p \in 1 .. count : t[p] = t[p - 1] \o parts[p]
    BY <1>4, <2>3
  <2>5. t \in [0 .. count -> Seq(D)]
    BY <2>1
  <2>6. t[0] = <<>>
    BY <2>2
  <2> HIDE DEF t
  <2> QED
    BY <1>5, <2>4, <2>5, <2>6 DEF Partials
<1>7. t[count] = whole
  <2>1. end(count) = L
    BY DEF end
  <2>2. SubSeq(whole, 1, L) = whole
    BY DEF L
  <2> QED
    BY <2>1, <2>2
<1> HIDE DEF t
<1>8. FlattenSeq(parts) = whole
  BY <1>5, <1>6, <1>7, FlattenIs
<1> QED
  BY <1>5, <1>8 DEF parts
Reading == [page : T!Pages, by : Recognisers \cup {"parser"}]

Rising(pages) == \A i, j \in DOMAIN pages : i < j => pages[i].page < pages[j].page

TextsOf(pages) == [i \in DOMAIN pages |-> T!TextOf(pages[i].page)]

LEMMA TextFacts ==
  ASSUME NEW p \in T!Pages
  PROVE  T!TextOf(p) \in Seq(T!Pages) /\ T!TextOf(p) # <<>> /\ ToSet(T!TextOf(p)) = {p}
<1>1. Length[p] \in Nat /\ Length[p] > 0
  BY TextAssumption DEF T!Pages
<1>2. DOMAIN T!TextOf(p) = 1 .. Length[p] /\ \A k \in 1 .. Length[p] : T!TextOf(p)[k] = p
  BY DEF T!TextOf
<1>3. T!TextOf(p) \in [1 .. Length[p] -> T!Pages]
  BY DEF T!TextOf
<1>4. 1 \in 1 .. Length[p]
  BY <1>1
<1>5. ToSet(T!TextOf(p)) = {p}
  BY <1>2, <1>4 DEF ToSet
<1>6. T!TextOf(p) # <<>>
  <2>1. ToSet(<<>>) = {}
    BY DEF ToSet
  <2> QED
    BY <1>5, <2>1
<1>7. T!TextOf(p) \in Seq(T!Pages)
  BY <1>1, <1>3
<1> QED
  BY <1>5, <1>6, <1>7

LEMMA TextsFacts ==
  ASSUME NEW pages \in Seq(Reading)
  PROVE  /\ TextsOf(pages) \in Seq(Seq(T!Pages)) /\ Len(TextsOf(pages)) = Len(pages)
         /\ \A i \in 1 .. Len(pages) :
              pages[i].page \in T!Pages /\ TextsOf(pages)[i] = T!TextOf(pages[i].page)
<1>1. /\ Len(pages) \in Nat /\ DOMAIN pages = 1 .. Len(pages)
      /\ \A i \in 1 .. Len(pages) : pages[i] \in Reading
  OBVIOUS
<1>2. \A i \in 1 .. Len(pages) : pages[i].page \in T!Pages
  BY <1>1 DEF Reading
<1>3. \A i \in 1 .. Len(pages) : TextsOf(pages)[i] = T!TextOf(pages[i].page)
  BY <1>1 DEF TextsOf
<1>4. DOMAIN TextsOf(pages) = 1 .. Len(pages)
  BY <1>1 DEF TextsOf
<1>5. \A i \in 1 .. Len(pages) : T!TextOf(pages[i].page) \in Seq(T!Pages)
  BY <1>2, TextFacts
<1>6. TextsOf(pages) \in [1 .. Len(pages) -> Seq(T!Pages)]
  BY <1>1, <1>5 DEF TextsOf
<1>7. TextsOf(pages) \in Seq(Seq(T!Pages))
  BY <1>1, <1>6
<1> QED
  BY <1>1, <1>2, <1>3, <1>4, <1>7

LEMMA FlatFacts ==
  ASSUME NEW pages \in Seq(Reading)
  PROVE  /\ T!Flat(pages) \in Seq(T!Pages) /\ T!Flat(pages) = FlattenSeq(TextsOf(pages))
         /\ \A x : x \in ToSet(T!Flat(pages)) <=> \E i \in 1 .. Len(pages) : x = pages[i].page
         /\ T!Flat(pages) = <<>> => pages = <<>>
<1>1. T!Flat(pages) = FlattenSeq(TextsOf(pages))
  BY ScanLists DEF T!Flat, TextsOf
<1>2. /\ TextsOf(pages) \in Seq(Seq(T!Pages)) /\ Len(TextsOf(pages)) = Len(pages)
      /\ \A i \in 1 .. Len(pages) :
           pages[i].page \in T!Pages /\ TextsOf(pages)[i] = T!TextOf(pages[i].page)
  BY TextsFacts
<1>3. /\ T!Flat(pages) \in Seq(T!Pages)
      /\ \A x : x \in ToSet(T!Flat(pages)) <=> \E i \in 1 .. Len(pages) : x \in ToSet(TextsOf(pages)[i])
  BY <1>1, <1>2, FlattenElements
<1>4. \A i \in 1 .. Len(pages) : ToSet(TextsOf(pages)[i]) = {pages[i].page}
  BY <1>2, TextFacts
<1>5. ASSUME NEW x
      PROVE  x \in ToSet(T!Flat(pages)) <=> \E i \in 1 .. Len(pages) : x = pages[i].page
  <2>1. \A i \in 1 .. Len(pages) : x \in ToSet(TextsOf(pages)[i]) <=> x = pages[i].page
    BY <1>4
  <2> QED
    BY <1>3, <2>1
<1>6. ASSUME T!Flat(pages) = <<>>, pages # <<>> PROVE FALSE
  <2>1. 1 \in 1 .. Len(pages)
    BY <1>6
  <2>2. pages[1].page \in ToSet(T!Flat(pages))
    BY <1>5, <2>1
  <2>3. ToSet(<<>>) = {}
    BY DEF ToSet
  <2> QED
    BY <1>6, <2>2, <2>3
<1> QED
  BY <1>1, <1>3, <1>5, <1>6

\* How many of the pages of an ascending list are not after page p.
LEMMA CountExists ==
  ASSUME NEW pages \in Seq(Reading), Rising(pages), NEW p \in Nat
  PROVE  \E c \in 0 .. Len(pages) : \A i \in 1 .. Len(pages) : i <= c <=> pages[i].page <= p
<1> DEFINE n == Len(pages)
           X == {i \in 1 .. n + 1 : i = n + 1 \/ pages[i].page > p}
<1>1. n \in Nat /\ n + 1 \in X /\ X \subseteq Nat /\ X # {}
  OBVIOUS
<1>2. PICK x \in X : \A y \in X : x <= y
  <2> HIDE DEF X
  <2> QED BY <1>1, Least
<1>3. x \in 1 .. n + 1 /\ x - 1 \in 0 .. n
  BY <1>1, <1>2
<1>4. \A i \in 1 .. n : pages[i].page \in Nat
  BY TextsFacts, TextAssumption DEF T!Pages
<1>5. ASSUME NEW i \in 1 .. n PROVE i <= x - 1 <=> pages[i].page <= p
  <2>1. CASE i < x
    <3>1. i \notin X
      BY <1>2, <1>3, <2>1
    <3>2. i \in 1 .. n + 1
      BY <1>1
    <3>3. ~ (pages[i].page > p)
      BY <3>1, <3>2
    <3> QED
      BY <1>3, <1>4, <2>1, <3>3
  <2>2. CASE ~ (i < x)
    <3>1. x \in 1 .. n /\ x # n + 1
      BY <1>1, <1>3, <2>2
    <3>2. pages[x].page > p
      BY <3>1
    <3>3. x = i \/ pages[x].page < pages[i].page
      BY <1>3, <2>2, <3>1 DEF Rising
    <3> QED
      BY <1>3, <1>4, <2>2, <3>1, <3>2, <3>3
  <2> QED BY <2>1, <2>2
<1> HIDE DEF n, X
<1> QED
  BY <1>3, <1>5 DEF n

LEMMA PagesWhole ==
  ASSUME NEW pages \in Seq(Reading), Rising(pages),
         NEW u \in Seq(Seq(T!Pages)), Len(u) = N,
         \A p \in T!Pages :
           u[p] = IF \E i \in DOMAIN pages : pages[i].page = p THEN T!TextOf(p) ELSE <<>>
  PROVE  FlattenSeq(u) = T!Flat(pages)
<1> DEFINE n == Len(pages)
           seqs == TextsOf(pages)
           Upto(p) == CHOOSE c \in 0 .. n : \A i \in 1 .. n : i <= c <=> pages[i].page <= p
<1>1. /\ n \in Nat /\ N \in Nat /\ DOMAIN pages = 1 .. n
      /\ seqs \in Seq(Seq(T!Pages)) /\ Len(seqs) = n
      /\ \A i \in 1 .. n : pages[i].page \in 1 .. N /\ seqs[i] = T!TextOf(pages[i].page)
  BY TextsFacts, TextAssumption DEF T!Pages
<1>2. \A p \in Nat : Upto(p) \in 0 .. n /\ \A i \in 1 .. n : i <= Upto(p) <=> pages[i].page <= p
  BY CountExists
<1> HIDE DEF Upto, seqs, n
<1>3. PICK t : Partials(t, seqs, T!Pages)
  BY <1>1, PartialsExist
<1>4. FlattenSeq(seqs) = t[n]
  BY <1>1, <1>3, FlattenIs
<1>5. /\ \A c \in 0 .. n : t[c] \in Seq(T!Pages)
      /\ t[0] = <<>> /\ \A i \in 1 .. n : t[i] = t[i - 1] \o seqs[i]
  BY <1>1, <1>3 DEF Partials
<1> DEFINE v == [p \in 0 .. N |-> t[Upto(p)]]
<1>6. \A p \in 0 .. N : p \in Nat /\ Upto(p) \in 0 .. n /\ v[p] = t[Upto(p)]
  BY <1>1, <1>2
<1>7. v \in [0 .. N -> Seq(T!Pages)]
  BY <1>5, <1>6
<1>8. v[0] = <<>>
  <2>1. Upto(0) = 0
    <3>1. SUFFICES ASSUME Upto(0) # 0 PROVE FALSE
      OBVIOUS
    <3>2. 1 \in 1 .. n /\ 1 <= Upto(0)
      BY <1>1, <1>2, <3>1
    <3>3. pages[1].page <= 0
      BY <1>2, <3>2
    <3> QED
      BY <1>1, <3>2, <3>3
  <2> QED
    BY <1>1, <1>5, <1>6, <2>1
<1> HIDE DEF v
<1>9. ASSUME NEW p \in 1 .. N PROVE v[p] = v[p - 1] \o u[p]
  <2> DEFINE c == Upto(p - 1)
             d == Upto(p)
  <2>1. /\ p \in 0 .. N /\ p - 1 \in 0 .. N /\ p \in Nat /\ p - 1 \in Nat
        /\ c \in 0 .. n /\ d \in 0 .. n /\ v[p - 1] = t[c] /\ v[p] = t[d]
    BY <1>1, <1>6
  <2>2. \A i \in 1 .. n : (i <= c <=> pages[i].page <= p - 1) /\ (i <= d <=> pages[i].page <= p)
    BY <1>2, <2>1
  <2> HIDE DEF c, d
  <2>3. CASE \E i \in 1 .. n : pages[i].page = p
    <3>1. PICK i \in 1 .. n : pages[i].page = p
      BY <2>3
    <3>2. i > c /\ i <= d
      BY <1>1, <2>1, <2>2, <3>1
    <3>3. c + 1 = i
      <4>1. SUFFICES ASSUME c + 1 < i PROVE FALSE
        BY <1>1, <2>1, <3>2
      <4>2. c + 1 \in 1 .. n
        BY <1>1, <2>1, <4>1
      <4>3. pages[c + 1].page < p
        BY <1>1, <3>1, <4>1, <4>2 DEF Rising
      <4>4. pages[c + 1].page <= p - 1
        BY <1>1, <2>1, <4>2, <4>3
      <4>5. c + 1 <= c
        BY <2>2, <4>2, <4>4
      <4> QED BY <2>1, <4>5
    <3>4. d = i
      <4>1. SUFFICES ASSUME i < d PROVE FALSE
        BY <1>1, <2>1, <3>2
      <4>2. d \in 1 .. n
        BY <1>1, <2>1, <4>1
      <4>3. p < pages[d].page
        BY <1>1, <3>1, <4>1, <4>2 DEF Rising
      <4>4. pages[d].page <= p
        BY <2>1, <2>2, <4>2
      <4> QED BY <1>1, <2>1, <4>2, <4>3, <4>4
    <3>5. u[p] = T!TextOf(p)
      BY <1>1, <3>1 DEF T!Pages
    <3>6. seqs[i] = u[p] /\ i - 1 = c
      BY <1>1, <2>1, <3>1, <3>3, <3>5
    <3> QED
      BY <1>5, <2>1, <3>4, <3>6
  <2>4. CASE ~ \E i \in 1 .. n : pages[i].page = p
    <3>1. u[p] = <<>>
      BY <1>1, <2>4 DEF T!Pages
    <3>2. ~ (c < d)
      <4>1. SUFFICES ASSUME c < d PROVE FALSE
        OBVIOUS
      <4>2. d \in 1 .. n
        BY <1>1, <2>1, <4>1
      <4>3. pages[d].page <= p /\ ~ (pages[d].page <= p - 1)
        BY <2>1, <2>2, <4>1, <4>2
      <4> QED BY <1>1, <2>1, <2>4, <4>2, <4>3
    <3>3. ~ (d < c)
      <4>1. SUFFICES ASSUME d < c PROVE FALSE
        OBVIOUS
      <4>2. c \in 1 .. n
        BY <1>1, <2>1, <4>1
      <4>3. pages[c].page <= p - 1 /\ ~ (pages[c].page <= p)
        BY <2>1, <2>2, <4>1, <4>2
      <4> QED BY <1>1, <2>1, <4>2, <4>3
    <3>4. c = d
      BY <1>1, <2>1, <3>2, <3>3
    <3>5. t[c] \in Seq(T!Pages)
      BY <1>5, <2>1
    <3>6. t[c] \o <<>> = t[c]
      BY <3>5
    <3> QED
      BY <2>1, <3>1, <3>4, <3>6
  <2> QED BY <2>3, <2>4
<1>10. v[N] = t[n]
  <2>1. N \in 0 .. N /\ Upto(N) \in 0 .. n /\ v[N] = t[Upto(N)]
    BY <1>1, <1>6
  <2>2. Upto(N) = n
    <3>1. CASE n = 0
      BY <2>1, <3>1
    <3>2. CASE n # 0
      <4>1. n \in 1 .. n
        BY <1>1, <3>2
      <4>2. pages[n].page <= N
        BY <1>1, <4>1
      <4>3. n <= Upto(N)
        BY <1>1, <1>2, <4>1, <4>2
      <4> QED BY <1>1, <2>1, <4>3
    <3> QED BY <3>1, <3>2
  <2> QED BY <2>1, <2>2
<1>11. Partials(v, u, T!Pages)
  BY <1>7, <1>8, <1>9 DEF Partials
<1>12. FlattenSeq(u) = v[N]
  BY <1>11, FlattenIs
<1> QED
  BY <1>4, <1>10, <1>12, FlatFacts DEF seqs

LEMMA PagesOfFacts ==
  ASSUME NEW pages \in Seq(Reading), Rising(pages)
  PROVE  /\ T!PagesOf(pages) \in Seq(Seq(T!Pages)) /\ Len(T!PagesOf(pages)) = N
         /\ FlattenSeq(T!PagesOf(pages)) = T!Flat(pages)
         /\ \A i \in DOMAIN pages : pages[i].by = "parser" =>
              \A p \in T!Pages : T!PagesOf(pages)[p] =
                IF \E j \in DOMAIN pages : pages[j].page = p THEN T!TextOf(p) ELSE <<>>
<1>1. N \in Nat \ {0}
  BY TextAssumption
<1>2. CASE \E i \in DOMAIN pages : pages[i].by = "parser"
  <2> DEFINE u == [p \in T!Pages |->
                     IF \E i \in DOMAIN pages : pages[i].page = p THEN T!TextOf(p) ELSE <<>>]
  <2>1. T!PagesOf(pages) = u
    BY <1>2 DEF T!PagesOf
  <2>2. u \in [1 .. N -> Seq(T!Pages)]
    <3>1. \A p \in T!Pages : T!TextOf(p) \in Seq(T!Pages)
      BY TextFacts
    <3>2. <<>> \in Seq(T!Pages)
      OBVIOUS
    <3>3. u \in [T!Pages -> Seq(T!Pages)]
      BY <3>1, <3>2
    <3> HIDE DEF u
    <3> QED
      BY <3>3 DEF T!Pages
  <2>3. \A p \in T!Pages :
          u[p] = IF \E i \in DOMAIN pages : pages[i].page = p THEN T!TextOf(p) ELSE <<>>
    OBVIOUS
  <2> HIDE DEF u
  <2>4. u \in Seq(Seq(T!Pages))
    BY <1>1, <2>2
  <2>5. Len(u) = N
    BY <1>1, <2>2, <2>4
  <2>6. FlattenSeq(u) = T!Flat(pages)
    BY <2>3, <2>4, <2>5, PagesWhole
  <2> QED
    BY <2>1, <2>3, <2>4, <2>5, <2>6
<1>3. CASE ~ \E i \in DOMAIN pages : pages[i].by = "parser"
  <2>1. T!PagesOf(pages) = T!Split(T!Flat(pages), N)
    BY <1>3 DEF T!PagesOf
  <2>2. T!Flat(pages) \in Seq(T!Pages)
    BY FlatFacts
  <2> QED
    BY <1>1, <1>3, <2>1, <2>2, SplitWhole
<1> QED BY <1>2, <1>3

-----------------------------------------------------------------------------
\* Every page of S that was read by r stands in the text, and nothing else does;
\* in the words of one who read it, and of DeepSeek if it was among them.
Accounts(pages, r, S) ==
  /\ \A i \in DOMAIN pages :
       /\ pages[i].page \in S /\ <<pages[i].page, pages[i].by>> \in r
       /\ <<pages[i].page, "deepseek-api">> \in r => pages[i].by = "deepseek-api"
  /\ \A p \in S : \A e \in Recognisers :
       <<p, e>> \in r => \E i \in DOMAIN pages : pages[i].page = p

\* b is kept of what r says the pages S were read by; after DeepSeek nobody is asked.
Chosen(b, r, t, list, S) ==
  /\ b = "none" => \A p \in S : \A e \in Recognisers : <<p, e>> \notin r
  /\ b # "none" => \A p \in S : <<p, b>> \in r
  /\ \A p \in S : <<p, "deepseek-api">> \in r => b = "deepseek-api" /\ t > Len(list)

\* What a reader sees of a page that the parser read.
OwnText(v, pages) ==
  \A i \in DOMAIN pages :
    pages[i].by = "parser" /\ v.page = pages[i].page => ToSet(v.text) = {v.page}

DrawnOf(list) == Among(list, {e \in Recognisers : e # "android-mlkit"})
WholeOf(k)    == IF k = "pdf" THEN T!Pages ELSE {1}

ScanTypes ==
  /\ engines \in Seq(Recognisers) /\ at \in 1 .. N + 1 /\ turn \in Nat /\ turn > 0
  /\ best \in Recognisers \cup {"none"} /\ read \in SUBSET (T!Pages \X Recognisers)
  /\ out \in Seq(Reading) /\ Rising(out)

\* Before the first page is shown to a recogniser.
ScanStarts ==
  /\ reading \in {"new", "archive", "parsing", "drawing"} => read = {} /\ best = "none"
  /\ reading \in {"new", "parsing", "drawing", "whole"} => at = 1 /\ out = <<>>
  /\ reading = "archive" => \A i \in DOMAIN out : out[i].page < at
  /\ reading = "drawing" => ~ sawEmpty
  /\ reading # "done" => verdict = "" /\ view.page = 0

\* While they are shown, one page after the other or all at once.
ScanReads ==
  /\ reading = "pages" =>
       /\ Accounts(out, read, 1 .. at - 1) /\ read \subseteq (1 .. at) \X Recognisers
       /\ Chosen(best, read, turn, DrawnOf(engines), {at})
  /\ reading = "whole" =>
       /\ read \subseteq WholeOf(kind) \X Recognisers
       /\ Chosen(best, read, turn, engines, WholeOf(kind))

ScanEnds ==
  /\ reading = "done" /\ verdict = "" =>
       /\ read # {} => Accounts(out, read, T!Pages)
       /\ kind = "pdf" => pageTexts = T!PagesOf(out) /\ OwnText(view, out)
  /\ verdict \in {"ocr empty", "ocr unavailable"} => read = {}
  /\ verdict = "ocr unavailable" => ~ sawEmpty

ScanInv == ScanTypes /\ ScanStarts /\ ScanReads /\ ScanEnds

LEMMA NamesApart ==
  /\ "none" \notin Recognisers /\ "parser" \notin Recognisers
  BY TextAssumption

LEMMA DrawnFacts == T!Drawn = DrawnOf(engines) /\ (engines \in Seq(Recognisers) => DrawnOf(engines) \in Seq(Recognisers))
<1>1. T!Drawn = DrawnOf(engines)
  BY ScanAmong DEF T!Drawn, DrawnOf, T!HasPages
<1>2. ASSUME engines \in Seq(Recognisers) PROVE DrawnOf(engines) \in Seq(Recognisers)
  <2>1. DrawnOf(engines) \in Seq(Recognisers \cap {e \in Recognisers : e # "android-mlkit"})
    BY <1>2, AmongFacts DEF DrawnOf
  <2> QED
    BY <2>1
<1> QED
  BY <1>1, <1>2

LEMMA ScanInitially == T!Init => ScanInv
<1> SUFFICES ASSUME T!Init PROVE ScanInv
  OBVIOUS
<1>1. PICK present \in SUBSET Recognisers : engines = T!Candidates(present)
  BY DEF T!Init
<1>2. engines \in Seq(Recognisers)
  <2> DEFINE Names == {"deepseek-api", "android-mlkit", "formula-command", "tesseract", "windows-ocr"}
             wanted == IF "android-mlkit" \in present
                       THEN present \cap {"deepseek-api", "android-mlkit"} ELSE present
  <2>1. engines = Among(T!Order, wanted)
    BY <1>1, ScanAmong DEF T!Candidates
  <2>2. T!Order \in Seq(Names)
    BY DEF T!Order
  <2>3. wanted \subseteq Recognisers
    OBVIOUS
  <2> HIDE DEF Names, wanted
  <2>4. Among(T!Order, wanted) \in Seq(Names \cap wanted)
    BY <2>2, AmongFacts
  <2> QED
    BY <2>1, <2>3, <2>4
<1>3. /\ reading = "new" /\ at = 1 /\ turn = 1 /\ best = "none" /\ sawEmpty = FALSE
      /\ out = <<>> /\ verdict = "" /\ view.page = 0 /\ read = {}
  BY DEF T!Init, T!None, T!NoView
<1>4. at \in 1 .. N + 1 /\ turn \in Nat /\ turn > 0
  <2>1. at = 1 /\ turn = 1
    BY DEF T!Init
  <2> QED
    BY ONLY <2>1, TextAssumption
<1>5. <<>> \in Seq(Reading) /\ Rising(<<>>)
  BY DEF Rising
<1>6. ScanTypes
  <2>1. out \in Seq(Reading) /\ Rising(out)
    BY <1>3, <1>5
  <2> QED
    BY <1>2, <1>3, <1>4, <2>1 DEF ScanTypes
<1>7. ScanStarts
  BY <1>3 DEF ScanStarts
<1>8. ScanReads /\ ScanEnds
  BY <1>3 DEF ScanReads, ScanEnds
<1> QED
  BY <1>6, <1>7, <1>8 DEF ScanInv

LEMMA RefuseKeeps ==
  ASSUME ScanInv, NEW why, why # "", T!Refuse(why),
         why \in {"ocr empty", "ocr unavailable"} => read = {},
         why = "ocr unavailable" => ~ sawEmpty
  PROVE  ScanInv'
<1>1. /\ reading' = "done" /\ verdict' = why
      /\ UNCHANGED <<kind, engines, at, turn, best, sawEmpty, out, pageTexts, view, read>>
  BY DEF T!Refuse, T!file
<1>2. ScanTypes'
  BY <1>1 DEF ScanInv, ScanTypes
<1>3. ScanStarts' /\ ScanReads' /\ ScanEnds'
  BY <1>1 DEF ScanStarts, ScanReads, ScanEnds
<1> QED
  BY <1>2, <1>3 DEF ScanInv

LEMMA StoreKeeps ==
  ASSUME ScanInv, reading # "done", NEW pages \in Seq(Reading), Rising(pages), T!Store(pages),
         read # {} => Accounts(pages, read, T!Pages)
  PROVE  ScanInv'
<1>1. CASE T!Flat(pages) = <<>>
  BY <1>1, RefuseKeeps DEF T!Store
<1>2. CASE T!Flat(pages) # <<>>
  <2>1. /\ reading' = "done" /\ out' = pages /\ verdict' = "" /\ view' = view
        /\ kind' = kind /\ engines' = engines /\ at' = at /\ turn' = turn /\ best' = best
        /\ read' = read /\ (kind = "pdf" => pageTexts' = T!PagesOf(pages))
    BY <1>2 DEF T!Store, T!file, ScanInv, ScanStarts
  <2>2. OwnText(view, pages)
    <3>1. view.page = 0
      BY DEF ScanInv, ScanStarts
    <3>2. \A i \in 1 .. Len(pages) : pages[i].page \in T!Pages
      BY TextsFacts
    <3>3. DOMAIN pages = 1 .. Len(pages) /\ 0 \notin T!Pages
      BY DEF T!Pages
    <3> QED
      BY <3>1, <3>2, <3>3 DEF OwnText
  <2>3. ScanTypes'
    BY <2>1 DEF ScanInv, ScanTypes
  <2>4. ScanStarts' /\ ScanReads' /\ ScanEnds'
    BY <2>1, <2>2 DEF ScanStarts, ScanReads, ScanEnds
  <2> QED
    BY <2>3, <2>4 DEF ScanInv
<1> QED BY <1>1, <1>2

LEMMA LookKeeps ==
  ASSUME ScanInv, NEW list \in Seq(Recognisers), NEW S \in SUBSET T!Pages, T!Shown = S,
         Chosen(best, read, turn, list, S), NEW answer, NEW better, T!Look(list, answer, better)
  PROVE  /\ Chosen(best', read', turn', list, S) /\ best' \in Recognisers \cup {"none"}
         /\ turn' \in Nat /\ turn' > 0 /\ \E e \in Recognisers : read' \subseteq read \cup (S \X {e})
         /\ read \subseteq read'
         /\ UNCHANGED <<kind, content, ocr, engines, reading, at, out, pageTexts, verdict, view>>
<1> DEFINE e == list[turn]
           wins == answer = "read" /\ T!Wins(e, better)
<1>1. /\ turn <= Len(list)
      /\ best' = IF wins THEN e ELSE best
      /\ read' = IF answer = "read" THEN read \cup (S \X {e}) ELSE read
      /\ turn' = IF answer = "read" /\ e = "deepseek-api" THEN Len(list) + 1 ELSE turn + 1
  BY DEF T!Look
<1>2. UNCHANGED <<kind, content, ocr, engines, reading, at, out, pageTexts, verdict, view>>
  BY DEF T!Look, T!file
<1>3. /\ turn \in Nat /\ turn > 0 /\ Len(list) \in Nat /\ best \in Recognisers \cup {"none"}
      /\ read \subseteq T!Pages \X Recognisers
  BY DEF ScanInv, ScanTypes
<1>4. e \in Recognisers /\ e # "none"
  BY <1>1, <1>3, NamesApart
<1>5. wins <=> answer = "read" /\ (e = "deepseek-api" \/ best = "none" \/ better)
  BY DEF T!Wins, T!None
<1> HIDE DEF e, wins
<1>6. \A p \in S : <<p, "deepseek-api">> \notin read
  <2>1. ~ (turn > Len(list))
    BY <1>1, <1>3
  <2> QED
    BY <2>1 DEF Chosen
<1>7. turn' \in Nat /\ turn' > 0 /\ best' \in Recognisers \cup {"none"}
  BY <1>1, <1>3, <1>4
<1>8. read \subseteq read' /\ read' \subseteq read \cup (S \X {e})
  BY <1>1
<1>9. Chosen(best', read', turn', list, S)
  <2>1. CASE answer = "read"
    <3>1. read' = read \cup (S \X {e})
      BY <1>1, <2>1
    <3>2. best' # "none"
      BY <1>1, <1>3, <1>4, <1>5, <2>1
    <3>3. \A p \in S : <<p, best'>> \in read'
      <4>1. CASE wins
        BY <1>1, <3>1, <4>1
      <4>2. CASE ~ wins
        <5>1. best' = best
          BY <1>1, <4>2
        <5> QED
          BY <3>1, <3>2, <5>1 DEF Chosen
      <4> QED BY <4>1, <4>2
    <3>4. ASSUME NEW p \in S, <<p, "deepseek-api">> \in read'
          PROVE  best' = "deepseek-api" /\ turn' > Len(list)
      <4>1. e = "deepseek-api"
        BY <1>6, <3>1, <3>4
      <4>2. best' = e
        BY <1>1, <1>5, <2>1, <4>1
      <4> QED
        BY <1>1, <1>3, <2>1, <4>1, <4>2
    <3> QED
      BY <3>2, <3>3, <3>4 DEF Chosen
  <2>2. CASE answer # "read"
    <3>1. best' = best /\ read' = read
      BY <1>1, <1>5, <2>2
    <3> QED
      BY <1>6, <3>1 DEF Chosen
  <2> QED BY <2>1, <2>2
<1> QED
  BY <1>2, <1>4, <1>7, <1>8, <1>9

\* A page after all that stand in the text.
LEMMA AppendRises ==
  ASSUME NEW pages \in Seq(Reading), Rising(pages), NEW x \in Reading,
         \A i \in DOMAIN pages : pages[i].page < x.page
  PROVE  Append(pages, x) \in Seq(Reading) /\ Rising(Append(pages, x))
<1>1. /\ DOMAIN Append(pages, x) = 1 .. Len(pages) + 1 /\ Len(pages) \in Nat
      /\ DOMAIN pages = 1 .. Len(pages)
      /\ \A i \in 1 .. Len(pages) : Append(pages, x)[i] = pages[i]
      /\ Append(pages, x)[Len(pages) + 1] = x /\ Append(pages, x) \in Seq(Reading)
  OBVIOUS
<1>2. ASSUME NEW i \in 1 .. Len(pages) + 1, NEW j \in 1 .. Len(pages) + 1, i < j
      PROVE  Append(pages, x)[i].page < Append(pages, x)[j].page
  <2>1. i \in 1 .. Len(pages)
    BY <1>1, <1>2
  <2>2. CASE j \in 1 .. Len(pages)
    BY <1>1, <1>2, <2>1, <2>2 DEF Rising
  <2>3. CASE j \notin 1 .. Len(pages)
    <3>1. j = Len(pages) + 1
      BY <1>1, <2>3
    <3> QED
      BY <1>1, <2>1, <3>1
  <2> QED BY <2>2, <2>3
<1> QED
  BY <1>1, <1>2 DEF Rising

LEMMA BeginKeeps ==
  ASSUME ScanInv, NEW s, s \in {"whole", "parsing", "archive"}, reading = "new", T!Begin(s)
  PROVE  ScanInv'
<1>1. /\ reading' = s
      /\ UNCHANGED <<kind, engines, at, turn, best, sawEmpty, out, pageTexts, verdict, view, read>>
  BY DEF T!Begin, T!file
<1>2. read = {} /\ best = "none" /\ at = 1 /\ out = <<>> /\ verdict = "" /\ view.page = 0
  BY DEF ScanInv, ScanStarts
<1>3. Chosen("none", {}, turn, engines, WholeOf(kind))
  BY DEF Chosen
<1>4. ScanTypes'
  BY <1>1 DEF ScanInv, ScanTypes
<1>5. ScanStarts' /\ ScanEnds'
  <2>1. \A i \in DOMAIN out : FALSE
    <3>1. out = <<>>
      BY <1>2
    <3> QED
      BY ONLY <3>1
  <2>2. ScanStarts'
    BY <1>1, <1>2, <2>1 DEF ScanStarts
  <2>3. ScanEnds'
    BY <1>1, <1>2 DEF ScanEnds
  <2> QED BY <2>2, <2>3
<1>6. ScanReads'
  BY <1>1, <1>2, <1>3 DEF ScanReads
<1> QED
  BY <1>4, <1>5, <1>6 DEF ScanInv

LEMMA DrawKeeps == ASSUME ScanInv, T!Draw PROVE ScanInv'
<1>1. CASE T!Refuse("ocr unavailable")
  BY <1>1, RefuseKeeps DEF T!Draw, ScanInv, ScanStarts
<1>2. CASE T!Begin("pages")
  <2>1. /\ reading' = "pages"
        /\ UNCHANGED <<kind, engines, at, turn, best, sawEmpty, out, pageTexts, verdict, view, read>>
    BY <1>2 DEF T!Begin, T!file
  <2>2. read = {} /\ best = "none" /\ at = 1 /\ out = <<>> /\ verdict = "" /\ view.page = 0
    BY DEF ScanInv, ScanStarts, T!Draw
  <2>3. Chosen("none", {}, turn, DrawnOf(engines), {1}) /\ Accounts(<<>>, {}, 1 .. 1 - 1)
    BY DEF Chosen, Accounts
  <2>4. ScanTypes'
    BY <2>1 DEF ScanInv, ScanTypes
  <2>5. ScanStarts' /\ ScanEnds'
    BY <2>1, <2>2 DEF ScanStarts, ScanEnds
  <2>6. ScanReads'
    BY <2>1, <2>2, <2>3 DEF ScanReads
  <2> QED
    BY <2>4, <2>5, <2>6 DEF ScanInv
<1> QED BY <1>1, <1>2 DEF T!Draw

LEMMA UnparsedKeeps == ASSUME ScanInv, T!Unparsed PROVE ScanInv'
<1>1. CASE T!Refuse("no parser")
  BY <1>1, RefuseKeeps
<1>2. CASE T!Refuse("ocr required")
  BY <1>2, RefuseKeeps
<1>3. CASE ~ (T!Refuse("no parser") \/ T!Refuse("ocr required"))
  <2>1. /\ reading = "parsing" /\ reading' \in {"whole", "drawing"} /\ turn' = 1 /\ sawEmpty' = FALSE
        /\ UNCHANGED <<kind, engines, at, best, out, pageTexts, verdict, view, read>>
    BY <1>3 DEF T!Unparsed, T!file
  <2>2. read = {} /\ best = "none" /\ at = 1 /\ out = <<>> /\ verdict = "" /\ view.page = 0
    BY <2>1 DEF ScanInv, ScanStarts
  <2>3. Chosen("none", {}, 1, engines, WholeOf(kind))
    BY DEF Chosen
  <2>4. ScanTypes'
    BY <2>1 DEF ScanInv, ScanTypes
  <2>5. ScanStarts' /\ ScanEnds'
    BY <2>1, <2>2 DEF ScanStarts, ScanEnds
  <2>6. ScanReads'
    BY <2>1, <2>2, <2>3 DEF ScanReads
  <2> QED
    BY <2>4, <2>5, <2>6 DEF ScanInv
<1> QED BY <1>1, <1>2, <1>3

LEMMA EntryKeeps == ASSUME ScanInv, NEW torn, T!ReadEntry(torn) PROVE ScanInv'
<1>1. reading = "archive" /\ read = {} /\ verdict = "" /\ out \in Seq(Reading) /\ Rising(out)
  BY DEF T!ReadEntry, ScanInv, ScanTypes, ScanStarts
<1>2. CASE T!Store(out)
  BY <1>1, <1>2, StoreKeeps
<1>3. CASE T!Refuse("broken")
  BY <1>3, RefuseKeeps
<1>4. CASE ~ (T!Store(out) \/ T!Refuse("broken"))
  <2> DEFINE x == [page |-> at, by |-> "parser"]
  <2>0. out \in Seq(Reading)
    BY <1>1
  <2>1. ~ (at > N) /\ ~ torn
    BY <1>4 DEF T!ReadEntry
  <2>2. /\ at' = at + 1 /\ (out' = out \/ out' = Append(out, x))
        /\ UNCHANGED <<kind, engines, reading, turn, best, sawEmpty, pageTexts, verdict, view, read>>
    BY <2>1 DEF T!ReadEntry, T!file
  <2>3. at \in 1 .. N /\ at + 1 \in 1 .. N + 1
    BY <2>1, TextAssumption DEF ScanInv, ScanTypes
  <2>4. x \in Reading
    BY <2>3 DEF Reading, T!Pages
  <2>5. \A i \in DOMAIN out : out[i].page \in Nat
    <3>1. \A i \in 1 .. Len(out) : out[i].page \in T!Pages
      BY <1>1, TextsFacts
    <3>2. T!Pages \subseteq Nat
      BY DEF T!Pages
    <3>3. DOMAIN out = 1 .. Len(out)
      BY ONLY <2>0
    <3> QED
      BY <3>1, <3>2, <3>3
  <2>6. \A i \in DOMAIN out : out[i].page < at
    BY <1>1 DEF ScanInv, ScanStarts
  <2>7. out' \in Seq(Reading) /\ Rising(out')
    BY <1>1, <2>2, <2>4, <2>6, AppendRises
  <2>8. \A i \in DOMAIN out' : out'[i].page < at'
    <3>1. CASE out' = out
      BY <2>2, <2>3, <2>5, <2>6, <3>1
    <3>2. CASE out' = Append(out, x)
      <4>1. DOMAIN out' = 1 .. Len(out) + 1 /\ DOMAIN out = 1 .. Len(out) /\ Len(out) \in Nat
        BY ONLY <2>0, <3>2
      <4>2. \A i \in 1 .. Len(out) : out'[i] = out[i]
        BY ONLY <2>0, <3>2
      <4>3. out'[Len(out) + 1].page = at
        BY ONLY <2>0, <3>2
      <4>4. \A i \in 1 .. Len(out) + 1 : i \in 1 .. Len(out) \/ i = Len(out) + 1
        BY <4>1
      <4>5. \A i \in 1 .. Len(out) : out'[i].page \in Nat /\ out'[i].page < at
        BY <2>5, <2>6, <4>1, <4>2
      <4> HIDE DEF x
      <4> QED
        BY <2>2, <2>3, <4>1, <4>3, <4>4, <4>5
    <3> QED BY <2>2, <3>1, <3>2
  <2>9. ScanTypes'
    BY <2>2, <2>3, <2>7 DEF ScanInv, ScanTypes
  <2>10. ScanStarts' /\ ScanReads' /\ ScanEnds'
    BY <1>1, <2>2, <2>8 DEF ScanInv, ScanStarts, ScanReads, ScanEnds
  <2> QED
    BY <2>9, <2>10 DEF ScanInv
<1> QED BY <1>2, <1>3, <1>4

\* The pages of a set, one after the other.
LEMMA AscendingFacts ==
  ASSUME NEW S \in SUBSET T!Pages, NEW b \in Recognisers \cup {"parser"}
  PROVE  LET pages == [i \in 1 .. T!Cardinality(S) |-> [page |-> T!Ascending(S)[i], by |-> b]]
         IN  pages \in Seq(Reading) /\ Rising(pages)
<1> DEFINE less == {x \in S \X S : x[1] < x[2]}
           n == Cardinality(S)
           order == InOrder(S, less)
           pages == [i \in 1 .. T!Cardinality(S) |-> [page |-> T!Ascending(S)[i], by |-> b]]
<1>1. \A x \in S : x \in Int
  BY DEF T!Pages
<1>2. Orders(less, S)
  BY <1>1 DEF Orders
<1>3. IsFiniteSet(S)
  <2>1. IsFiniteSet(1 .. N)
    BY TextAssumption, FS_Interval
  <2> QED
    BY <2>1, FS_Subset DEF T!Pages
<1>4. /\ n \in Nat /\ order \in [1 .. n -> S]
      /\ \A k, m \in 1 .. n : k < m => <<order[k], order[m]>> \in less
  <2> HIDE DEF less
  <2> QED BY <1>2, <1>3, InOrderFacts
<1>5. T!Ascending(S) = order /\ T!Cardinality(S) = n
  BY ScanInOrder, ScanLists DEF T!Ascending
<1> HIDE DEF order, n
<1>6. pages = [i \in 1 .. n |-> [page |-> order[i], by |-> b]]
  BY <1>5
<1> HIDE DEF pages
<1>7. \A i \in 1 .. n : order[i] \in T!Pages /\ pages[i] = [page |-> order[i], by |-> b]
  BY <1>4, <1>6
<1>8. \A i \in 1 .. n : pages[i] \in Reading /\ pages[i].page = order[i]
  <2> TAKE i \in 1 .. n
  <2>1. order[i] \in T!Pages /\ pages[i] = [page |-> order[i], by |-> b]
    BY <1>7
  <2> QED
    BY <2>1 DEF Reading
<1>9. pages \in [1 .. n -> Reading]
  BY <1>6, <1>8
<1>10. pages \in Seq(Reading)
  BY <1>4, <1>9
<1>11. ASSUME NEW i \in 1 .. n, NEW j \in 1 .. n, i < j PROVE pages[i].page < pages[j].page
  <2>1. <<order[i], order[j]>> \in less
    BY <1>4, <1>11
  <2>2. order[i] < order[j]
    BY <2>1
  <2> QED
    BY <1>8, <2>2
<1>12. Rising(pages)
  BY <1>9, <1>11 DEF Rising
<1> QED
  BY <1>10, <1>12 DEF pages

LEMMA ParseKeeps == ASSUME ScanInv, NEW found, NEW works, T!Parse(found, works) PROVE ScanInv'
<1>1. reading = "parsing" /\ read = {} /\ best = "none" /\ at = 1 /\ out = <<>> /\ found \in SUBSET T!Pages
  BY DEF T!Parse, ScanInv, ScanStarts
<1>2. CASE found # {}
  <2> DEFINE pages == [i \in 1 .. T!Cardinality(found) |-> [page |-> T!Ascending(found)[i], by |-> "parser"]]
  <2>1. pages \in Seq(Reading) /\ Rising(pages)
    BY <1>1, AscendingFacts
  <2>2. T!Store(pages)
    BY <1>2 DEF T!Parse
  <2> HIDE DEF pages
  <2> QED
    BY <1>1, <2>1, <2>2, StoreKeeps
<1>3. CASE found = {}
  <2>1. /\ turn' = turn + 1
        /\ UNCHANGED <<kind, engines, reading, at, best, out, pageTexts, verdict, view, read>>
    BY <1>3 DEF T!Parse, T!file
  <2>2. turn + 1 \in Nat /\ turn + 1 > 0
    BY DEF ScanInv, ScanTypes
  <2>3. ScanTypes'
    BY <2>1, <2>2 DEF ScanInv, ScanTypes
  <2>4. ScanStarts' /\ ScanReads' /\ ScanEnds'
    BY <1>1, <2>1 DEF ScanInv, ScanStarts, ScanReads, ScanEnds
  <2> QED
    BY <2>3, <2>4 DEF ScanInv
<1> QED BY <1>2, <1>3

LEMMA LookAtPageKeeps ==
  ASSUME ScanInv, reading = "pages", at <= N, NEW answer, NEW better, T!Look(T!Drawn, answer, better)
  PROVE  ScanInv'
<1> DEFINE list == DrawnOf(engines)
<1>1. /\ at \in 1 .. N /\ engines \in Seq(Recognisers) /\ read \subseteq (1 .. at) \X Recognisers
      /\ Accounts(out, read, 1 .. at - 1) /\ Chosen(best, read, turn, list, {at})
      /\ verdict = "" /\ view.page = 0 /\ read \in SUBSET (T!Pages \X Recognisers)
  <2>1. at \in 1 .. N
    BY TextAssumption DEF ScanInv, ScanTypes
  <2> QED
    BY <2>1 DEF ScanInv, ScanTypes, ScanStarts, ScanReads
<1>2. T!Drawn = list /\ list \in Seq(Recognisers)
  BY <1>1, DrawnFacts
<1>3. {at} \in SUBSET T!Pages /\ T!Shown = {at}
  BY <1>1 DEF T!Shown, T!Pages
<1> HIDE DEF list
<1>4. /\ Chosen(best', read', turn', list, {at}) /\ best' \in Recognisers \cup {"none"}
      /\ turn' \in Nat /\ turn' > 0 /\ \E e \in Recognisers : read' \subseteq read \cup ({at} \X {e})
      /\ read \subseteq read'
      /\ UNCHANGED <<kind, content, ocr, engines, reading, at, out, pageTexts, verdict, view>>
  BY <1>1, <1>2, <1>3, LookKeeps
<1>5. PICK e \in Recognisers : read' \subseteq read \cup ({at} \X {e})
  BY <1>4
<1>6. read' \in SUBSET (T!Pages \X Recognisers) /\ read' \subseteq (1 .. at) \X Recognisers
  <2>1. at \in 1 .. N
    BY <1>1
  <2>2. at \in 1 .. at
    BY ONLY <2>1, TextAssumption
  <2> QED
    BY <1>1, <1>3, <1>5, <2>2
<1>7. \A p \in 1 .. at - 1 : \A b : <<p, b>> \in read' <=> <<p, b>> \in read
  <2> TAKE p \in 1 .. at - 1
  <2>1. p # at
    <3>1. at \in 1 .. N
      BY <1>1
    <3> QED
      BY ONLY <3>1, TextAssumption, p \in 1 .. at - 1
  <2> TAKE b
  <2>2. <<p, b>> \notin {at} \X {e}
    BY <2>1
  <2> QED
    BY <1>4, <1>5, <2>2
<1>8. Accounts(out, read', 1 .. at - 1)
  BY <1>1, <1>7 DEF Accounts
<1>9. ScanTypes'
  BY <1>4, <1>6 DEF ScanInv, ScanTypes
<1>10. ScanStarts' /\ ScanEnds'
  BY <1>1, <1>4 DEF ScanStarts, ScanEnds
<1>11. ScanReads'
  BY <1>4, <1>6, <1>8 DEF ScanReads, list
<1> QED
  BY <1>9, <1>10, <1>11 DEF ScanInv

LEMMA LookAtWholeKeeps ==
  ASSUME ScanInv, reading = "whole", NEW answer, NEW better, T!Look(engines, answer, better)
  PROVE  ScanInv'
<1> DEFINE S == WholeOf(kind)
<1>1. /\ at = 1 /\ out = <<>> /\ engines \in Seq(Recognisers) /\ read \subseteq S \X Recognisers
      /\ Chosen(best, read, turn, engines, S)
      /\ verdict = "" /\ view.page = 0 /\ read \in SUBSET (T!Pages \X Recognisers)
  BY DEF ScanInv, ScanTypes, ScanStarts, ScanReads
<1>2. S \in SUBSET T!Pages /\ T!Shown = S
  <2>1. 1 \in T!Pages
    BY TextAssumption DEF T!Pages
  <2>2. S \in SUBSET T!Pages
    BY <2>1 DEF WholeOf
  <2>3. T!Shown = S
    BY <1>1 DEF T!Shown, WholeOf
  <2> QED BY <2>2, <2>3
<1> HIDE DEF S
<1>3. /\ Chosen(best', read', turn', engines, S) /\ best' \in Recognisers \cup {"none"}
      /\ turn' \in Nat /\ turn' > 0 /\ \E e \in Recognisers : read' \subseteq read \cup (S \X {e})
      /\ UNCHANGED <<kind, content, ocr, engines, reading, at, out, pageTexts, verdict, view>>
  BY <1>1, <1>2, LookKeeps
<1>4. PICK e \in Recognisers : read' \subseteq read \cup (S \X {e})
  BY <1>3
<1>5. read' \in SUBSET (T!Pages \X Recognisers) /\ read' \subseteq S \X Recognisers
  BY <1>1, <1>2, <1>4
<1>6. ScanTypes'
  BY <1>3, <1>5 DEF ScanInv, ScanTypes
<1>7. ScanStarts' /\ ScanEnds'
  BY <1>1, <1>3 DEF ScanStarts, ScanEnds
<1>8. ScanReads'
  BY <1>3, <1>5 DEF ScanReads, S
<1> QED
  BY <1>6, <1>7, <1>8 DEF ScanInv

LEMMA TurnPageKeeps == ASSUME ScanInv, T!TurnPage PROVE ScanInv'
<1>1. /\ reading = "pages" /\ out' = T!Kept /\ best' = "none" /\ turn' = 1 /\ at' = at + 1
      /\ UNCHANGED <<kind, content, ocr, engines, reading, sawEmpty, pageTexts, verdict, view, read>>
  BY DEF T!TurnPage, T!None, T!file
<1>2. at \in 1 .. N /\ at + 1 \in 1 .. N + 1 /\ (at + 1) - 1 = at
  <2>1. at \in 1 .. N + 1 /\ at <= N
    BY DEF T!TurnPage, ScanInv, ScanTypes
  <2> QED
    BY ONLY <2>1, TextAssumption
<1>3. out \in Seq(Reading)
  BY DEF ScanInv, ScanTypes
<1>4. /\ Accounts(out, read, 1 .. at - 1) /\ read \subseteq (1 .. at) \X Recognisers
      /\ Chosen(best, read, turn, DrawnOf(engines), {at}) /\ best \in Recognisers \cup {"none"}
      /\ verdict = "" /\ view.page = 0 /\ Rising(out)
  BY <1>1 DEF ScanInv, ScanTypes, ScanStarts, ScanReads
<1>5. ASSUME NEW i \in DOMAIN out PROVE out[i].page \in 1 .. at - 1 /\ out[i].page < at
  <2>1. out[i].page \in 1 .. at - 1
    BY <1>4 DEF Accounts
  <2> QED
    BY ONLY <1>2, <2>1
<1>6. \A p : p \in 1 .. at <=> p \in 1 .. at - 1 \/ p = at
  BY ONLY <1>2
<1>7. /\ out' \in Seq(Reading) /\ Rising(out') /\ Accounts(out', read, 1 .. at)
  <2>1. CASE best = "none"
    <3>1. T!Kept = out \o <<>>
      BY <2>1 DEF T!Kept, T!None
    <3>2. out' = out
      <4>1. out \o <<>> = out
        BY ONLY <1>3
      <4> QED BY <1>1, <3>1, <4>1
    <3>3. \A e \in Recognisers : <<at, e>> \notin read
      BY <1>4, <2>1 DEF Chosen
    <3>4. Accounts(out, read, 1 .. at)
      BY <1>4, <1>6, <3>3 DEF Accounts
    <3> QED
      BY <1>3, <1>4, <3>2, <3>4
  <2>2. CASE best # "none"
    <3> DEFINE x == [page |-> at, by |-> best]
    <3>1. x \in Reading /\ x.page = at /\ x.by = best
      BY <1>2, <1>4, <2>2 DEF Reading, T!Pages
    <3>2. T!Shown = {at}
      BY <1>1 DEF T!Shown
    <3>3. T!Cardinality(T!Shown) = 1
      BY <3>2, ScanLists, FS_Singleton
    <3>4. T!Kept = out \o [i \in 1 .. 1 |-> [page |-> at + i - 1, by |-> best]]
      BY <2>2, <3>3 DEF T!Kept, T!None
    <3>5. [i \in 1 .. 1 |-> [page |-> at + i - 1, by |-> best]] = <<x>>
      <4>1. \A i \in 1 .. 1 : at + i - 1 = at
        BY ONLY <1>2
      <4> QED
        BY <4>1
    <3>6. out' = Append(out, x)
      <4>1. out' = out \o <<x>>
        BY <1>1, <3>4, <3>5
      <4> HIDE DEF x
      <4>2. out \o <<x>> = Append(out, x)
        BY ONLY <1>3, <3>1
      <4> QED BY <4>1, <4>2
    <3> HIDE DEF x
    <3>7. Append(out, x) \in Seq(Reading) /\ Rising(Append(out, x))
      BY <1>3, <1>4, <1>5, <3>1, AppendRises
    <3>8. /\ Len(out) \in Nat /\ DOMAIN out = 1 .. Len(out)
          /\ DOMAIN Append(out, x) = 1 .. Len(out) + 1 /\ Append(out, x)[Len(out) + 1] = x
          /\ \A i \in 1 .. Len(out) : Append(out, x)[i] = out[i]
      BY ONLY <1>3, <3>1
    <3>9. \A i : i \in 1 .. Len(out) + 1 <=> i \in 1 .. Len(out) \/ i = Len(out) + 1
      BY ONLY <3>8
    <3>10. <<at, best>> \in read /\ (<<at, "deepseek-api">> \in read => best = "deepseek-api")
      BY <1>4, <2>2 DEF Chosen
    <3>11. Accounts(Append(out, x), read, 1 .. at)
      <4>1. ASSUME NEW i \in DOMAIN Append(out, x)
            PROVE  LET y == Append(out, x)[i]
                   IN  /\ y.page \in 1 .. at /\ <<y.page, y.by>> \in read
                       /\ <<y.page, "deepseek-api">> \in read => y.by = "deepseek-api"
        <5>1. CASE i \in 1 .. Len(out)
          BY <1>4, <1>6, <3>8, <5>1 DEF Accounts
        <5>2. CASE i = Len(out) + 1
          BY <1>6, <3>1, <3>8, <3>10, <5>2
        <5> QED BY <3>8, <3>9, <5>1, <5>2
      <4>2. ASSUME NEW p \in 1 .. at, NEW e \in Recognisers, <<p, e>> \in read
            PROVE  \E i \in DOMAIN Append(out, x) : Append(out, x)[i].page = p
        <5>1. CASE p = at
          BY <3>1, <3>8, <3>9, <5>1
        <5>2. CASE p \in 1 .. at - 1
          <6>1. PICK i \in DOMAIN out : out[i].page = p
            BY <1>4, <4>2, <5>2 DEF Accounts
          <6> QED
            BY <3>8, <3>9, <6>1
        <5> QED BY <1>6, <5>1, <5>2
      <4> QED
        BY <4>1, <4>2 DEF Accounts
    <3> QED
      BY <3>6, <3>7, <3>11
  <2> QED BY <2>1, <2>2
<1>8. read \subseteq (1 .. at + 1) \X Recognisers /\ \A e \in Recognisers : <<at + 1, e>> \notin read
  <2>1. 1 .. at \subseteq 1 .. at + 1 /\ at + 1 \notin 1 .. at
    BY ONLY <1>2
  <2> QED
    BY <1>4, <2>1
<1>9. Chosen("none", read, 1, DrawnOf(engines), {at + 1})
  <2>1. \A e : <<at + 1, e>> \notin read
    BY <1>4, <1>8
  <2> QED
    BY <2>1 DEF Chosen
<1>10. ScanTypes'
  <2>1. turn' \in Nat /\ turn' > 0
    BY <1>1
  <2> QED
    BY <1>1, <1>2, <1>7, <2>1 DEF ScanInv, ScanTypes
<1>11. ScanStarts' /\ ScanEnds'
  BY <1>1, <1>4 DEF ScanStarts, ScanEnds
<1>12. ScanReads'
  <2>1. /\ reading' = "pages" /\ at' = at + 1 /\ read' = read /\ best' = "none" /\ turn' = 1
        /\ engines' = engines
    BY <1>1
  <2>2. at' - 1 = at
    BY <1>2, <2>1
  <2> QED
    BY <1>7, <1>8, <1>9, <2>1, <2>2 DEF ScanReads
<1> QED
  BY <1>10, <1>11, <1>12 DEF ScanInv

\* What was read of a file that ends here is all in its text.
LEMMA RecognisedKeeps ==
  ASSUME ScanInv, reading # "done", NEW pages \in Seq(Reading), Rising(pages),
         Accounts(pages, read, T!Pages), T!Recognised(pages)
  PROVE  ScanInv'
<1>1. CASE pages # <<>>
  BY <1>1, StoreKeeps DEF T!Recognised
<1>2. CASE pages = <<>>
  <2>1. read = {}
    <3>1. \A i \in DOMAIN pages : FALSE
      BY ONLY <1>2
    <3>2. \A p \in T!Pages : \A e \in Recognisers : <<p, e>> \notin read
      BY <3>1 DEF Accounts
    <3> QED
      BY <3>2 DEF ScanInv, ScanTypes
  <2>2. CASE sawEmpty
    BY <1>2, <2>1, <2>2, RefuseKeeps DEF T!Recognised
  <2>3. CASE ~ sawEmpty
    BY <1>2, <2>1, <2>3, RefuseKeeps DEF T!Recognised
  <2> QED BY <2>2, <2>3
<1> QED BY <1>1, <1>2

LEMMA LastPageKeeps ==
  ASSUME ScanInv, reading = "pages", at > N, T!Recognised(out)
  PROVE  ScanInv'
<1>1. 1 .. at - 1 = T!Pages
  <2>1. at \in 1 .. N + 1
    BY DEF ScanInv, ScanTypes
  <2>2. 1 .. at - 1 = 1 .. N
    BY ONLY <2>1, TextAssumption, at > N
  <2> QED
    BY <2>2 DEF T!Pages
<1>2. out \in Seq(Reading) /\ Rising(out) /\ Accounts(out, read, T!Pages)
  BY <1>1 DEF ScanInv, ScanTypes, ScanReads
<1> QED
  BY <1>2, RecognisedKeeps

LEMMA WholeKeeps ==
  ASSUME ScanInv, reading = "whole", T!Recognised(T!Kept)
  PROVE  ScanInv'
<1> DEFINE S == WholeOf(kind)
           c == IF kind = "pdf" THEN N ELSE 1
           pages == [i \in 1 .. c |-> [page |-> i, by |-> best]]
<1>1. /\ at = 1 /\ out = <<>> /\ read \subseteq S \X Recognisers
      /\ Chosen(best, read, turn, engines, S) /\ best \in Recognisers \cup {"none"}
  BY DEF ScanInv, ScanTypes, ScanStarts, ScanReads
<1>2. c \in Nat /\ S = 1 .. c /\ S \subseteq T!Pages
  <2>1. CASE kind = "pdf"
    BY <2>1, TextAssumption DEF WholeOf, T!Pages
  <2>2. CASE kind # "pdf"
    <3>1. {1} = 1 .. 1 /\ 1 \in 1 .. N
      BY ONLY TextAssumption
    <3> QED
      BY <2>2, <3>1 DEF WholeOf, T!Pages
  <2> QED BY <2>1, <2>2
<1>3. T!Cardinality(T!Shown) = c
  <2>1. T!Shown = S
    BY <1>1 DEF T!Shown, WholeOf
  <2> HIDE DEF c
  <2>2. Cardinality(1 .. c) = c
    BY ONLY <1>2, FS_Interval
  <2> QED
    BY <1>2, <2>1, <2>2, ScanLists
<1> HIDE DEF S, c
<1>4. CASE best = "none"
  <2>1. T!Kept = <<>>
    <3>1. T!Kept = <<>> \o <<>>
      BY <1>1, <1>4 DEF T!Kept, T!None
    <3> QED BY <3>1
  <2>2. <<>> \in Seq(Reading) /\ Rising(<<>>)
    BY DEF Rising
  <2>3. \A p \in T!Pages : \A e \in Recognisers : <<p, e>> \notin read
    BY <1>1, <1>4 DEF Chosen
  <2>4. Accounts(<<>>, read, T!Pages)
    BY <2>3 DEF Accounts
  <2> QED
    BY <2>1, <2>2, <2>4, RecognisedKeeps
<1>5. CASE best # "none"
  <2>1. \A i \in 1 .. c : 1 + i - 1 = i
    BY ONLY <1>2
  <2>2. pages \in [1 .. c -> Reading]
    BY <1>1, <1>2, <1>5 DEF Reading
  <2>3. pages \in Seq(Reading) /\ DOMAIN pages = 1 .. c /\ \A i \in 1 .. c : pages[i].page = i /\ pages[i].by = best
    <3>1. pages \in Seq(Reading)
      <4> HIDE DEF pages
      <4> QED BY ONLY <1>2, <2>2
    <3> QED BY <3>1
  <2>4. T!Kept = pages
    <3>1. T!Kept = <<>> \o [i \in 1 .. c |-> [page |-> 1 + i - 1, by |-> best]]
      BY <1>1, <1>3, <1>5 DEF T!Kept, T!None
    <3>2. [i \in 1 .. c |-> [page |-> 1 + i - 1, by |-> best]] = pages
      BY <2>1
    <3> HIDE DEF pages
    <3>3. <<>> \o pages = pages
      BY ONLY <2>3
    <3> QED BY <3>1, <3>2, <3>3
  <2> HIDE DEF pages
  <2>5. Rising(pages)
    BY <2>3 DEF Rising
  <2>6. Accounts(pages, read, T!Pages)
    <3>1. \A p \in S : <<p, best>> \in read /\ (<<p, "deepseek-api">> \in read => best = "deepseek-api")
      BY <1>1, <1>5 DEF Chosen
    <3>2. \A p \in T!Pages : \A e \in Recognisers : <<p, e>> \in read => p \in S
      BY <1>1
    <3> QED
      BY <1>2, <2>3, <3>1, <3>2 DEF Accounts
  <2> QED
    BY <2>3, <2>4, <2>5, <2>6, RecognisedKeeps
<1> QED BY <1>4, <1>5

LEMMA ShowPageKeeps == ASSUME ScanInv, NEW p \in T!Pages, T!ShowPage(p) PROVE ScanInv'
<1> DEFINE count == IF kind = "pdf" THEN N ELSE 1
           page == IF p > count THEN count ELSE p
           own == IF pageTexts = <<>> THEN <<>> ELSE pageTexts[page]
<1>1. /\ view' = [page |-> page,
                  text |-> IF own # <<>> THEN own ELSE T!Split(T!Flat(out), count)[page]]
      /\ reading = "done" /\ verdict = ""
      /\ UNCHANGED <<kind, engines, reading, at, turn, best, sawEmpty, out, pageTexts, verdict, read>>
  BY DEF T!ShowPage, T!file
<1>2. view'.page = page /\ (own # <<>> => view'.text = own)
  BY <1>1
<1> HIDE DEF own
<1>3. ASSUME kind = "pdf" PROVE OwnText(view', out)
  <2>1. /\ pageTexts = T!PagesOf(out) /\ out \in Seq(Reading) /\ Rising(out)
    BY <1>1, <1>3 DEF ScanInv, ScanTypes, ScanEnds
  <2>2. page = p
    <3>1. ~ (p > N)
      BY TextAssumption DEF T!Pages
    <3> QED
      BY <1>3, <3>1
  <2>3. pageTexts # <<>>
    <3>1. pageTexts \in Seq(Seq(T!Pages)) /\ Len(pageTexts) = N
      BY <2>1, PagesOfFacts
    <3> QED
      BY ONLY <3>1, TextAssumption
  <2>4. ASSUME NEW i \in DOMAIN out, out[i].by = "parser", view'.page = out[i].page
        PROVE  ToSet(view'.text) = {view'.page}
    <3>1. out[i].page = p
      BY <1>2, <2>2, <2>4
    <3>2. T!PagesOf(out)[p] = T!TextOf(p)
      BY <2>1, <2>4, <3>1, PagesOfFacts
    <3>3. own = T!TextOf(p)
      BY <2>1, <2>2, <2>3, <3>2 DEF own
    <3> HIDE DEF page
    <3>4. view'.text = T!TextOf(p)
      BY <1>2, <3>3, TextFacts
    <3> QED
      BY <1>2, <2>2, <3>4, TextFacts
  <2> QED
    BY <2>4 DEF OwnText
<1> HIDE DEF page
<1>4. ScanTypes'
  BY <1>1 DEF ScanInv, ScanTypes
<1>5. ScanStarts' /\ ScanReads'
  BY <1>1 DEF ScanStarts, ScanReads
<1>6. ScanEnds'
  <2>1. /\ reading' = reading /\ verdict' = verdict /\ read' = read /\ out' = out /\ kind' = kind
        /\ pageTexts' = pageTexts /\ sawEmpty' = sawEmpty
    BY <1>1
  <2> QED
    BY <1>3, <2>1 DEF ScanInv, ScanEnds
<1> QED
  BY <1>4, <1>5, <1>6 DEF ScanInv

LEMMA AcceptKeeps == ASSUME ScanInv, T!Accept PROVE ScanInv'
<1>1. reading = "new"
  BY DEF T!Accept
<1>2. CASE T!Refuse("empty") \/ T!Refuse("unsupported") \/ T!Refuse("ocr required")
  BY <1>2, RefuseKeeps
<1>3. CASE T!Begin("whole") \/ T!Begin("parsing") \/ T!Begin("archive")
  BY <1>1, <1>3, BeginKeeps
<1> QED BY <1>2, <1>3 DEF T!Accept

LEMMA PlainKeeps == ASSUME ScanInv, T!ReadPlain PROVE ScanInv'
<1>1. reading = "new" /\ read = {}
  BY DEF T!ReadPlain, ScanInv, ScanStarts
<1>2. CASE T!Refuse("empty")
  BY <1>2, RefuseKeeps
<1>3. CASE T!Store(<<[page |-> 1, by |-> "parser"]>>)
  <2> DEFINE x == [page |-> 1, by |-> "parser"]
  <2>1. x \in Reading
    <3>1. 1 \in T!Pages
      BY TextAssumption DEF T!Pages
    <3> QED
      BY <3>1 DEF Reading
  <2> HIDE DEF x
  <2>2. <<x>> \in Seq(Reading) /\ Rising(<<x>>)
    BY <2>1 DEF Rising
  <2>3. T!Store(<<x>>)
    BY <1>3 DEF x
  <2> QED
    BY <1>1, <2>2, <2>3, StoreKeeps
<1> QED BY <1>2, <1>3 DEF T!ReadPlain

LEMMA RestKeeps == ASSUME ScanInv, UNCHANGED T!vars PROVE ScanInv'
<1>1. UNCHANGED <<kind, engines, reading, at, turn, best, sawEmpty, out, pageTexts, verdict, view, read>>
  BY DEF T!vars, T!file
<1>2. ScanTypes' /\ ScanStarts'
  BY <1>1 DEF ScanInv, ScanTypes, ScanStarts
<1>3. ScanReads' /\ ScanEnds'
  BY <1>1 DEF ScanInv, ScanReads, ScanEnds
<1> QED
  BY <1>2, <1>3 DEF ScanInv

LEMMA ScanKeeps == ScanInv /\ [T!Next]_(T!vars) => ScanInv'
<1> SUFFICES ASSUME ScanInv, [T!Next]_(T!vars) PROVE ScanInv'
  OBVIOUS
<1>1. CASE UNCHANGED T!vars
  BY <1>1, RestKeeps
<1>2. CASE T!Accept \/ T!ReadPlain \/ T!Unparsed \/ T!Draw \/ T!TurnPage
  BY <1>2, AcceptKeeps, PlainKeeps, UnparsedKeeps, DrawKeeps, TurnPageKeeps
<1>3. CASE T!Unzip
  BY <1>3, RefuseKeeps DEF T!Unzip
<1>4. CASE T!ReadChapter \/ T!ReadSlide \/ T!ReadPart \/ T!ReadSheet
  BY <1>4, EntryKeeps DEF T!ReadChapter, T!ReadSlide, T!ReadPart, T!ReadSheet
<1>5. ASSUME NEW found \in SUBSET T!Pages, NEW works \in BOOLEAN, T!Parse(found, works) PROVE ScanInv'
  BY <1>5, ParseKeeps
<1>6. ASSUME NEW answer \in {"read", "empty", "noise", "garbage", "failed"}, NEW better \in BOOLEAN,
             \/ reading = "pages" /\ at <= N /\ T!Look(T!Drawn, answer, better)
             \/ reading = "whole" /\ T!Look(engines, answer, better)
      PROVE  ScanInv'
  BY <1>6, LookAtPageKeeps, LookAtWholeKeeps
<1>7. CASE \/ reading = "pages" /\ at > N /\ T!Recognised(out)
           \/ reading = "whole" /\ turn > Len(engines) /\ T!Recognised(T!Kept)
  BY <1>7, LastPageKeeps, WholeKeeps
<1>8. ASSUME NEW p \in T!Pages, T!ShowPage(p) PROVE ScanInv'
  BY <1>8, ShowPageKeeps
<1> QED
  BY <1>1, <1>2, <1>3, <1>4, <1>5, <1>6, <1>7, <1>8 DEF T!Next

LEMMA ScanAccounts == ScanInv => T!PagesAreAccountedFor
<1> SUFFICES ASSUME ScanInv PROVE T!PagesAreAccountedFor
  OBVIOUS
<1>1. ASSUME reading = "done", verdict = "", read # {}
      PROVE  /\ {out[i].page : i \in DOMAIN out} = T!PagesRead
             /\ \A i, j \in DOMAIN out : i < j => out[i].page < out[j].page
             /\ \A i \in DOMAIN out :
                  /\ out[i].by \in T!ReadBy(out[i].page)
                  /\ "deepseek-api" \in T!ReadBy(out[i].page) => out[i].by = "deepseek-api"
  <2>1. /\ Accounts(out, read, T!Pages) /\ Rising(out) /\ read \in SUBSET (T!Pages \X Recognisers)
    BY <1>1 DEF ScanInv, ScanTypes, ScanEnds
  <2>2. \A p, e : <<p, e>> \in read => p \in T!Pages /\ e \in Recognisers
    BY <2>1
  <2>3. \A p, e : e \in T!ReadBy(p) <=> <<p, e>> \in read
    BY <2>2 DEF T!ReadBy
  <2>4. \A p : p \in T!PagesRead <=> \E e \in Recognisers : <<p, e>> \in read
    BY <2>2, <2>3 DEF T!PagesRead
  <2>5. \A p \in T!PagesRead : \E i \in DOMAIN out : out[i].page = p
    BY <2>1, <2>2, <2>4 DEF Accounts
  <2>6. \A i \in DOMAIN out : out[i].page \in T!PagesRead
    BY <2>1, <2>2, <2>4 DEF Accounts
  <2>7. \A i \in DOMAIN out :
          /\ out[i].by \in T!ReadBy(out[i].page)
          /\ "deepseek-api" \in T!ReadBy(out[i].page) => out[i].by = "deepseek-api"
    BY <2>1, <2>3 DEF Accounts
  <2> QED
    BY <2>1, <2>5, <2>6, <2>7 DEF Rising
<1> QED
  BY <1>1 DEF ScanInv, ScanEnds, T!PagesAreAccountedFor

LEMMA EmptyElements == ToSet(<<>>) = {}
  BY DEF ToSet

LEMMA ScanMakesText == ScanInv => T!PagesMakeTheText
<1> SUFFICES ASSUME ScanInv, reading = "done", verdict = "", kind = "pdf"
             PROVE  /\ T!FlattenSeq(pageTexts) = T!Flat(out)
                    /\ \A i \in DOMAIN out :
                         /\ T!Finds(out[i].page) # {}
                         /\ out[i].by = "parser" =>
                              /\ T!Finds(out[i].page) = {out[i].page}
                              /\ view.page = out[i].page => T!ToSet(view.text) = {view.page}
  BY DEF T!PagesMakeTheText
<1>1. pageTexts = T!PagesOf(out) /\ OwnText(view, out) /\ out \in Seq(Reading) /\ Rising(out)
  BY DEF ScanInv, ScanTypes, ScanEnds
<1>2. /\ pageTexts \in Seq(Seq(T!Pages)) /\ Len(pageTexts) = N /\ FlattenSeq(pageTexts) = T!Flat(out)
      /\ \A i \in DOMAIN out : out[i].by = "parser" =>
           \A p \in T!Pages : pageTexts[p] =
             IF \E j \in DOMAIN out : out[j].page = p THEN T!TextOf(p) ELSE <<>>
  BY <1>1, PagesOfFacts
<1>3. DOMAIN pageTexts = T!Pages
  <2>1. DOMAIN pageTexts = 1 .. Len(pageTexts)
    BY ONLY <1>2
  <2> QED
    BY <1>2, <2>1 DEF T!Pages
<1>4. \A x : T!Finds(x) = {q \in T!Pages : x \in ToSet(pageTexts[q])}
  BY <1>3, ScanLists DEF T!Finds
<1>5. ASSUME NEW i \in DOMAIN out PROVE T!Finds(out[i].page) # {} /\ out[i].page \in T!Pages
  <2>1. DOMAIN out = 1 .. Len(out)
    BY ONLY <1>1
  <2>2. out[i].page \in ToSet(T!Flat(out)) /\ out[i].page \in T!Pages
    BY <1>1, <2>1, FlatFacts, TextsFacts
  <2>3. \E q \in 1 .. Len(pageTexts) : out[i].page \in ToSet(pageTexts[q])
    BY <1>2, <2>2, FlattenElements
  <2>4. \E q \in T!Pages : out[i].page \in ToSet(pageTexts[q])
    BY <1>2, <2>3 DEF T!Pages
  <2> QED
    BY <1>4, <2>2, <2>4
<1>6. ASSUME NEW i \in DOMAIN out, out[i].by = "parser"
      PROVE  /\ T!Finds(out[i].page) = {out[i].page}
             /\ view.page = out[i].page => T!ToSet(view.text) = {view.page}
  <2> DEFINE p == out[i].page
  <2>1. ASSUME NEW q \in T!Pages, p \in ToSet(pageTexts[q]) PROVE q = p
    <3>1. ToSet(<<>>) = {}
      BY EmptyElements
    <3>2. ToSet(T!TextOf(q)) = {q}
      BY TextFacts
    <3>3. pageTexts[q] = T!TextOf(q) \/ pageTexts[q] = <<>>
      BY <1>2, <1>6
    <3> QED
      BY <2>1, <3>1, <3>2, <3>3
  <2>2. T!Finds(p) = {p}
    <3>1. T!Finds(p) # {} /\ \A q \in T!Finds(p) : q = p
      BY <1>4, <1>5, <2>1
    <3> QED
      BY <3>1
  <2>3. view.page = p => T!ToSet(view.text) = {view.page}
    BY <1>1, <1>6, ScanLists DEF OwnText
  <2> QED
    BY <2>2, <2>3
<1>7. T!FlattenSeq(pageTexts) = T!Flat(out)
  BY <1>2, ScanLists
<1> QED
  BY <1>5, <1>6, <1>7

\* From the file to the reader: what a recogniser read of a page is in the text, once
\* and in order and in the best words; the stored pages make the text; a page that the
\* parser read is found where it is (extract_pdf_text, page_texts_for_cache,
\* file_page_text, file_page_search).
THEOREM NoPageLost == T!Spec => []NoPageIsLost
<1>1. ScanInv => NoPageIsLost
  BY ScanAccounts, ScanMakesText DEF NoPageIsLost, T!NoPageIsLost
<1> QED
  BY ScanInitially, ScanKeeps, <1>1, PTL DEF T!Spec

-----------------------------------------------------------------------------
\* The behaviours that the run looks at have all this: whichever of the machines
\* moves, the others rest. (What NothingIsForgotten says needs its limits.)
THEOREM WorkbenchHolds ==
  MCSpec => /\ [](/\ RunsAreSanctioned /\ PassagesAreWhole /\ NoPageIsLost /\ PromptIsWhole
                  /\ PrefixKept /\ DirectoriesAgree)
            /\ ContentIsKept /\ UninstallSpares /\ NothingVanishes
<1>1. MCInit => Init /\ P!Init /\ C!Init /\ T!Init /\ R!Init /\ W!Init
  BY DEF MCInit
<1>2. [MCNext]_all => [Next]_vars
  BY DEF MCNext, all, vars
<1>3. [MCNext]_all => [P!Next]_(P!vars)
  BY DEF MCNext, all, packs, P!vars, P!binding
<1>4. [MCNext]_all => [C!Next]_(C!vars)
  BY DEF MCNext, all, pieces, C!vars, C!text, C!selection
<1>5. [MCNext]_all => [R!Next]_(R!vars)
  BY DEF MCNext, all, prompts, R!vars
<1>6. [MCNext]_all => [W!Next]_(W!vars)
  BY DEF MCNext, all, spaces, W!vars, W!contents, W!history
<1>7. [MCNext]_all => [T!Next]_(T!vars)
  BY DEF MCNext, all, scans, T!vars, T!file
<1>8. MCSpec => Spec /\ P!Spec /\ C!Spec /\ T!Spec /\ R!Spec /\ W!Spec
  BY <1>1, <1>2, <1>3, <1>4, <1>5, <1>6, <1>7, PTL
     DEF MCSpec, Spec, P!Spec, C!Spec, T!Spec, R!Spec, W!Spec
<1> QED
  BY <1>8, RunsSanctioned, PassagesWhole, NoPageLost, PromptsWhole, PrefixHolds, ProjectFilesAgree,
     ContentKept, UninstallSparesOthers, ProjectsKeepTheirEntries, PTL
=============================================================================

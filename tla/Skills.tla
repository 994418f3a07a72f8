------------------------------- MODULE Skills -------------------------------
(***************************************************************************)
(* Learned skills: save_skill and forget_skill                             *)
(* (src/recallum/skills/service.py) over the skills table                  *)
(* (src/recallum/db/repositories/skill_repo.py).  One bucket of one user   *)
(* (scope, project and name): the only rows that a save relates.           *)
(*                                                                         *)
(* A save is: look up the active skill, embed, write.  Each repository     *)
(* call is one transaction; supersede locks the row it retires and the     *)
(* partial unique index makes a concurrent insert wait, so a write is one  *)
(* step.  A skill is its steps; its other fields travel with them.         *)
(***************************************************************************)
EXTENDS Naturals, FiniteSets

CONSTANTS
    Savers,    \* save_skill calls in progress at one time
    Steps,     \* contents, told apart by their hash
    MaxSkills  \* bound: rows ever inserted

ASSUME MaxSkillsAssumption == MaxSkills \in Nat

VARIABLES
    skills,    \* row id -> its row
    save       \* saver -> its step and local state

skillVars == <<skills, save>>

NoSkill == 0
Rows == DOMAIN skills
Active == {i \in Rows : skills[i].active}
NewId == Cardinality(Rows) + 1
Room == NewId <= MaxSkills

Saving(s, where) == save[s].pc = where
SaveGo(s, state) == save' = [save EXCEPT ![s] = state]
(* What the caller gets; a call that raised is back at "idle". *)
Answer(s, id, created) ==
    SaveGo(s, [pc |-> "answered", steps |-> save[s].steps, replace |-> save[s].replace,
               id |-> id, created |-> created, first |-> save[s].first])

SkillsInit ==
    /\ skills = [i \in {} |-> 0]
    /\ save = [s \in Savers |-> [pc |-> "idle"]]

(* The arguments are validated before anything is read.  "first" is a      *)
(* history: the rows that existed when the call began.                     *)
SaveSkill(s, steps, replace) ==
    /\ Saving(s, "idle")
    /\ SaveGo(s, [pc |-> "find", steps |-> steps, replace |-> replace,
                  first |-> [rows |-> Rows, active |-> Active]])
    /\ UNCHANGED skills

(* find_active_by_name. *)
FindActive(s) ==
    /\ Saving(s, "find")
    /\ UNCHANGED skills
    /\ \/ /\ Active = {}
          /\ SaveGo(s, [save[s] EXCEPT !.pc = "embedNew"])
       \/ \E i \in Active :
             \/ skills[i].steps = save[s].steps /\ Answer(s, i, FALSE)
             \/ /\ skills[i].steps # save[s].steps /\ ~save[s].replace
                /\ SaveGo(s, [pc |-> "idle"])
             \/ /\ skills[i].steps # save[s].steps /\ save[s].replace
                /\ SaveGo(s, [pc |-> "embedNext", steps |-> save[s].steps, replace |-> TRUE,
                              id |-> i, first |-> save[s].first])

(* The embedding service answers, or the call raises. *)
Embed(s) ==
    /\ UNCHANGED skills
    /\ \/ Saving(s, "embedNew") /\ SaveGo(s, [save[s] EXCEPT !.pc = "create"])
       \/ Saving(s, "embedNext") /\ SaveGo(s, [save[s] EXCEPT !.pc = "supersede"])
       \/ Saving(s, "embedNew") /\ SaveGo(s, [pc |-> "idle"])
       \/ Saving(s, "embedNext") /\ SaveGo(s, [pc |-> "idle"])

(***************************************************************************)
(* supersede: the row must still be active; it is retired and linked to    *)
(* its replacement, of the next version.                                   *)
(***************************************************************************)
(* Mutant of Replaceable: the row is not read again under its lock. *)
StillThere(i) == i \in Rows
Replaceable(i) == i \in Active

NextVersion(i) == skills[i].version + 1

Supersede(s) ==
    LET i == save[s].id
    IN /\ Saving(s, "supersede")
       /\ \/ /\ ~Replaceable(i)
             /\ SaveGo(s, [pc |-> "idle"]) /\ UNCHANGED skills
          \/ /\ Replaceable(i) /\ Room
             /\ skills' = [j \in Rows \cup {NewId} |->
                   IF j = NewId
                   THEN [steps |-> save[s].steps, version |-> NextVersion(i), active |-> TRUE,
                         next |-> NoSkill, saw |-> i]
                   ELSE IF j = i THEN [skills[i] EXCEPT !.active = FALSE, !.next = NewId]
                   ELSE skills[j]]
             /\ Answer(s, NewId, TRUE)

(* create_skill, or IntegrityError from the index on active names. *)
Create(s) ==
    /\ Saving(s, "create")
    /\ \/ /\ Active = {} /\ Room
          /\ skills' = [j \in Rows \cup {NewId} |->
                IF j = NewId
                THEN [steps |-> save[s].steps, version |-> 1, active |-> TRUE,
                      next |-> NoSkill, saw |-> NoSkill]
                ELSE skills[j]]
          /\ Answer(s, NewId, TRUE)
       \/ /\ Active # {}
          /\ SaveGo(s, [save[s] EXCEPT !.pc = "raced"]) /\ UNCHANGED skills

(* Mutant of SameSteps: whatever won the race answers the call. *)
AnySteps(s, i) == TRUE
SameSteps(s, i) == skills[i].steps = save[s].steps

(* The race was lost: look up again; the error stands if nothing is there. *)
Raced(s) ==
    /\ Saving(s, "raced")
    /\ UNCHANGED skills
    /\ \/ \E i \in Active : SameSteps(s, i) /\ Answer(s, i, FALSE)
       \/ /\ \A i \in Active : ~SameSteps(s, i)
          /\ SaveGo(s, [pc |-> "idle"])

(* The caller has its answer; the advisory about similar skills is left out. *)
Answered(s) ==
    /\ Saving(s, "answered")
    /\ SaveGo(s, [pc |-> "idle"])
    /\ UNCHANGED skills

(* forget_skill: soft_delete. *)
Forget(i) ==
    /\ i \in Active
    /\ skills' = [skills EXCEPT ![i].active = FALSE]
    /\ UNCHANGED save

SkillsNext ==
    \/ \E s \in Savers :
          \/ \E steps \in Steps, replace \in BOOLEAN : SaveSkill(s, steps, replace)
          \/ FindActive(s) \/ Embed(s) \/ Supersede(s) \/ Create(s) \/ Raced(s) \/ Answered(s)
    \/ \E i \in Rows : Forget(i)

SkillsSpec == SkillsInit /\ [][SkillsNext]_skillVars

(***************************************************************************)
(* Properties.                                                             *)
(***************************************************************************)
SkillIds == 1..MaxSkills
SkillRow == [steps : Steps, version : SkillIds, active : BOOLEAN, next : SkillIds \cup {NoSkill},
             saw : SkillIds \cup {NoSkill}]
History == [rows : SUBSET SkillIds, active : SUBSET SkillIds]
Call == [pc : {"idle"}]
    \cup [pc : {"find", "embedNew", "create", "raced"}, steps : Steps, replace : BOOLEAN,
          first : History]
    \cup [pc : {"embedNext", "supersede"}, steps : Steps, replace : {TRUE}, id : SkillIds,
          first : History]
    \cup [pc : {"answered"}, steps : Steps, replace : BOOLEAN, id : SkillIds, created : BOOLEAN,
          first : History]

SkillsTypeOK ==
    /\ Rows = 1..Cardinality(Rows) /\ Rows \subseteq SkillIds
    /\ \A i \in Rows : skills[i] \in SkillRow
    /\ \A s \in Savers : save[s] \in Call

(* Versions form lines: a row is replaced at most once, by the next        *)
(* version, and the replacement's author had seen exactly the row it       *)
(* replaced; so concurrent replacements never branch and none overwrites   *)
(* a version its author did not see (skill_repo.py, supersede).            *)
VersionsAreLines ==
    /\ Cardinality(Active) <= 1
    /\ \A i \in Rows :
          LET j == skills[i].next
          IN j # NoSkill => /\ ~skills[i].active
                           /\ j \in Rows /\ skills[j].saw = i
                           /\ skills[j].version = skills[i].version + 1
    /\ \A j \in Rows : skills[j].saw # NoSkill => skills[skills[j].saw].next = j
    /\ \A j \in Rows : skills[j].version = 1 <=> skills[j].saw = NoSkill

(* What a save answers is true of its call: "created" names a row of its   *)
(* own with its steps, inserted during the call; "not created" names a     *)
(* row with the very steps, active at some moment of the call              *)
(* (skills/service.py, save_skill: "deduplicating identical active steps").*)
AnswersAreTrue ==
    \A s \in Savers : Saving(s, "answered") =>
        LET i == save[s].id
        IN /\ skills[i].steps = save[s].steps
           /\ IF save[s].created
              THEN i \notin save[s].first.rows
              ELSE i \in save[s].first.active \/ i \notin save[s].first.rows
           /\ save[s].created /\ skills[i].saw # NoSkill => save[s].replace
=============================================================================

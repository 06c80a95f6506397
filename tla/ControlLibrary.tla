--------------------------- MODULE ControlLibrary ---------------------------
(***************************************************************************)
(* One Control of a model directory, as the control library of             *)
(* packages/dt-core/src/dt-control-library keeps it in a file, pushes it   *)
(* to the platform and pulls it back (dt-control-library.ts,               *)
(* wal-helper.ts, audit-log-writer.ts), called by the manage_controls tool *)
(* of apps/dethereal.                                                      *)
(*                                                                         *)
(* The tool holds the library lock (module LibraryLock) for a whole call,  *)
(* so one call runs at a time; its platform calls and file writes are      *)
(* steps, other operators change the platform between them, and a call may *)
(* die or throw before any of them.  Both leave the disk and the platform  *)
(* as they are and lose the call's variables, so one action, Fail, stands  *)
(* for both.                                                               *)
(*                                                                         *)
(* A Control has some ControlClasses, each with some attributes; a Slot is *)
(* an attribute of a class.  Attribute values are compared only.           *)
(* Timestamps are left out but for the two comparisons of pushedAt with    *)
(* localEditedAt.  Id 0 is the temporary id of a greenfield Control.       *)
(***************************************************************************)
EXTENDS Naturals, Sequences

CONSTANTS
  Slots,        \* pairs <<class, attribute>>
  Values,       \* attribute values
  Absent, NotRecorded, FirstWrite, NoPush, NoFile,
  Docs,         \* the model documents that refer to the Control, in the
                \* order in which the journal rewrites them
  FirstValue,   \* the attributes the new Control is written with
  Shared,       \* whether another model uses the Control
  PullLives,    \* the lifecycles whose files the operator pulls
  Choices,      \* the answers an operator gives to a conflicting attribute
  MayClear,     \* whether the operator deletes a journal (clear-wal)
  MaxCreates, MaxFaults, MaxForeign, MaxEdits

Classes == {s[1] : s \in Slots}
Markers == {Absent, NotRecorded, FirstWrite, NoPush, NoFile}
ASSUME MarkersAssumption == Markers \cap Values = {}
ASSUME ValuesAssumption == FirstValue \in [Slots -> Values \union {Absent}]
ASSUME InputsAssumption ==
  /\ Docs \in Seq(STRING)
  /\ Shared \in BOOLEAN /\ MayClear \in BOOLEAN
  /\ PullLives \subseteq {"greenfield", "partially-pushed", "brownfield", "tombstoned"}
  /\ Choices \subseteq {"keep", "accept-theirs", "merge", "undecided"}
ASSUME BoundsAssumption ==
  /\ MaxCreates \in Nat /\ MaxFaults \in Nat
  /\ MaxForeign \in Nat /\ MaxEdits \in Nat

Ids == 0..MaxCreates
Attrs == [Slots -> Values \union {Absent}]
Lifecycles == {"greenfield", "partially-pushed", "brownfield", "tombstoned"}

\* A control file: attributes and the platform's attributes as last seen;
\* the classes with a platform snapshot, with a pendingEdit block, with a
\* localEditedAt, and with a pushedAt not older than it; and what each
\* pendingEdit block recorded of an attribute.
ControlFile ==
  [id : Ids, lifecycle : Lifecycles, attributes : Attrs,
   platformAttributes : Attrs, snapshot : SUBSET Classes,
   pendingEdit : SUBSET Classes,
   previous : [Slots -> Values \union {NotRecorded, FirstWrite}],
   edited : SUBSET Classes, pushed : SUBSET Classes]
ASSUME FileAssumption == NoFile \notin ControlFile

VARIABLES
  control,    \* controls/<id>.json
  refs,       \* the id each model document holds
  journal,    \* pending-id-rewrite.json: the server id it rewrites to, or 0
  platform,   \* attributes of each Control on the platform
  exists,     \* the Controls on the platform
  edges,      \* the Controls whose SUPPORTS edges are in place
  created     \* how many Controls createControl has made

disk == <<control, refs, journal>>
server == <<platform, exists, edges, created>>

VARIABLES
  pc,         \* where the call is
  cid,        \* the id the call works on
  at,         \* the step of a journal replay
  todo,       \* classes the call has still to write to the platform
  live,       \* platform attributes the operator has been shown
  decision,   \* the operator's answer for each attribute
  work,       \* the file the call has in memory
  outbound,   \* what the call sends for each attribute
  buffer      \* classes with a buffered audit entry

call == <<pc, cid, at, todo, live, decision, work, outbound, buffer>>

VARIABLES
  faults, foreign, edits,   \* bounded counters of what the environment did
  strays,     \* history: calls that ended between createControl and the journal
  cleared,    \* history: a journal was deleted without being applied
  owed,       \* history: classes pushed with an audit entry not yet written
  entries,    \* history: audit entries of each class's latest pendingEdit
  unseen,     \* history: attributes another operator wrote since the file
              \* took them in, and not decided on by this operator
  late        \* history: attributes Step B of the call could not have read

history == <<strays, cleared, owed, entries, unseen, late>>
counts == <<faults, foreign, edits>>
vars == <<disk, server, call, counts, history>>
-----------------------------------------------------------------------------
AllAbsent == [s \in Slots |-> Absent]
Nothing == [s \in Slots |-> NoPush]
NoDecision == [s \in Slots |-> "undecided"]
SlotsOf(c) == {s \in Slots : s[1] = c}
FileIds == {i \in Ids : control[i] # NoFile}

NewControl ==
  [id |-> 0, lifecycle |-> "greenfield", attributes |-> FirstValue,
   platformAttributes |-> AllAbsent, snapshot |-> {}, pendingEdit |-> {},
   previous |-> [s \in Slots |-> NotRecorded], edited |-> {}, pushed |-> {}]

Steps == {"idle", "replay", "create", "append", "flip", "attributes", "record",
          "finalise", "review", "mutate", "write", "flush"}

TypeOK ==
  /\ control \in [Ids -> ControlFile \union {NoFile}]
  /\ refs \in [{Docs[k] : k \in DOMAIN Docs} -> Ids]
  /\ journal \in Ids
  /\ platform \in [Ids -> Attrs]
  /\ exists \subseteq Ids /\ edges \subseteq exists /\ created \in Ids
  /\ pc \in Steps /\ cid \in Ids /\ at \in 0..(Len(Docs) + 3)
  /\ todo \subseteq Classes /\ buffer \subseteq Classes
  /\ live \in Attrs /\ decision \in [Slots -> Choices \union {"undecided"}]
  /\ work \in ControlFile \union {NoFile}
  /\ outbound \in [Slots -> Values \union {NoPush}]
  /\ faults \in 0..MaxFaults /\ foreign \in 0..MaxForeign /\ edits \in 0..MaxEdits
  /\ strays \in 0..MaxFaults /\ cleared \in BOOLEAN
  /\ owed \subseteq Classes /\ entries \in [Classes -> Nat] /\ unseen \subseteq Slots
  /\ late \subseteq Slots

Init ==
  /\ control = [i \in Ids |-> IF i = 0 THEN NewControl ELSE NoFile]
  /\ refs = [d \in {Docs[k] : k \in DOMAIN Docs} |-> 0]
  /\ journal = 0
  /\ platform = [i \in Ids |-> AllAbsent]
  /\ exists = {} /\ edges = {} /\ created = 0
  /\ pc = "idle" /\ cid = 0 /\ at = 0 /\ todo = {} /\ buffer = {}
  /\ live = AllAbsent /\ decision = NoDecision /\ work = NoFile /\ outbound = Nothing
  /\ faults = 0 /\ foreign = 0 /\ edits = 0
  /\ strays = 0 /\ cleared = FALSE /\ owed = {} /\ unseen = {} /\ late = {}
  /\ entries = [c \in Classes |-> 0]

Idle == pc = "idle"
\* The lock is held and there is no journal left to replay.
Ready == Idle /\ journal = 0

Return ==
  /\ pc' = "idle" /\ cid' = 0 /\ at' = 0 /\ todo' = {} /\ buffer' = {}
  /\ live' = AllAbsent /\ decision' = NoDecision /\ work' = NoFile /\ outbound' = Nothing

\* writeControlFile: the path is made of the id in the file.
Save(file) == control' = [control EXCEPT ![file.id] = file]

-----------------------------------------------------------------------------
(* The write-ahead journal.  A call that finds one replays it before its   *)
(* action; the replay returns to "idle", from where the action goes on.    *)
(* The journal holds one operation at most: an action appends one when the *)
(* journal of its predecessors has been replayed.                          *)

BeginReplay ==
  /\ Idle /\ journal # 0
  /\ pc' = "replay" /\ at' = 1
  /\ UNCHANGED <<disk, server, counts, history>>
  /\ UNCHANGED <<cid, todo, live, decision, work, outbound, buffer>>

\* replaceIdInFile: a document without the temporary id is left alone.
RewriteDoc ==
  /\ pc = "replay" /\ at \in 1..Len(Docs)
  /\ refs' = [refs EXCEPT ![Docs[at]] = IF @ = 0 THEN journal ELSE @]
  /\ at' = at + 1
  /\ UNCHANGED <<control, journal, server, counts, history>>
  /\ UNCHANGED <<pc, cid, todo, live, decision, work, outbound, buffer>>

RewriteControl ==
  /\ pc = "replay" /\ at = Len(Docs) + 1
  /\ IF control[0] = NoFile THEN control' = control
       ELSE control' = [control EXCEPT ![0] = [@ EXCEPT !.id = journal]]
  /\ at' = at + 1
  /\ UNCHANGED <<refs, journal, server, counts, history>>
  /\ UNCHANGED <<pc, cid, todo, live, decision, work, outbound, buffer>>

RenameBlindly ==
  /\ pc = "replay" /\ at = Len(Docs) + 2
  /\ control' = [control EXCEPT ![0] = NoFile, ![journal] = control[0]]
  /\ at' = at + 1
  /\ UNCHANGED <<refs, journal, server, counts, history>>
  /\ UNCHANGED <<pc, cid, todo, live, decision, work, outbound, buffer>>

\* Both files present is refused as ambiguous, and only clear-wal gets out.
Rename ==
  /\ pc = "replay" /\ at = Len(Docs) + 2
  /\ ~ {0, journal} \subseteq FileIds
  /\ control' = IF control[0] = NoFile THEN control
                ELSE [control EXCEPT ![0] = NoFile, ![journal] = control[0]]
  /\ at' = at + 1
  /\ UNCHANGED <<refs, journal, server, counts, history>>
  /\ UNCHANGED <<pc, cid, todo, live, decision, work, outbound, buffer>>

UnlinkJournal ==
  /\ pc = "replay" /\ at = Len(Docs) + 3
  /\ journal' = 0 /\ at' = 0
  /\ IF cid = 0 THEN pc' = "idle" /\ work' = work
                ELSE pc' = "flip" /\ work' = control[cid]
  /\ UNCHANGED <<control, refs, server, counts, history>>
  /\ UNCHANGED <<cid, todo, live, decision, outbound, buffer>>

\* clear-wal: the journal is deleted, nothing is applied.
ClearWal ==
  /\ MayClear /\ Idle /\ journal # 0
  /\ journal' = 0 /\ cleared' = TRUE
  /\ UNCHANGED <<control, refs, server, call, counts, strays, owed, entries, unseen, late>>

-----------------------------------------------------------------------------
(* pushGreenfieldControl                                                   *)

\* Step B skips a class whose pushedAt is not older than its localEditedAt; a
\* class that was never edited has no localEditedAt and is pushed again.
ToPush(file) == {c \in Classes : ~(c \in file.pushed /\ c \in file.edited)}
NeverResumes(file) == FALSE
\* The resume guard: a greenfield file that has its server id is not created.
Resumes(file) == file.id # 0

StartOnce(i) ==
  /\ Ready /\ i \in FileIds /\ control[i].lifecycle = "greenfield"
  /\ cid' = control[i].id /\ todo' = {}
  /\ IF Resumes(control[i]) THEN pc' = "flip" /\ work' = control[i]
                            ELSE pc' = "create" /\ work' = work
  /\ UNCHANGED <<disk, server, counts, history, at, live, decision, outbound, buffer>>

StartGreenfield(i) ==
  /\ Ready /\ i \in FileIds
  /\ cid' = control[i].id
  /\ \/ /\ control[i].lifecycle = "greenfield"
        /\ IF Resumes(control[i]) THEN pc' = "flip" /\ work' = control[i]
                                  ELSE pc' = "create" /\ work' = work
        /\ todo' = {}
     \/ /\ control[i].lifecycle = "partially-pushed"
        /\ pc' = "attributes" /\ work' = work /\ todo' = ToPush(control[i])
  /\ UNCHANGED <<disk, server, counts, history, at, live, decision, outbound, buffer>>

\* Step A: createControl mints an id each time it is called.
CreateControl ==
  /\ pc = "create" /\ created < MaxCreates
  /\ created' = created + 1
  /\ cid' = created' /\ exists' = exists \union {created'}
  /\ pc' = "append"
  /\ UNCHANGED <<disk, platform, edges, counts, history, at, todo, live, decision, work,
                 outbound, buffer>>

AppendOperation ==
  /\ pc = "append"
  /\ journal' = cid /\ pc' = "replay" /\ at' = 1
  /\ UNCHANGED <<control, refs, server, counts, history, cid, todo, live, decision, work,
                 outbound, buffer>>

FlipLifecycle ==
  /\ pc = "flip"
  /\ Save([work EXCEPT !.lifecycle = "partially-pushed"])
  /\ pc' = "attributes" /\ todo' = ToPush(work) /\ work' = NoFile
  /\ UNCHANGED <<refs, journal, server, counts, history, cid, at, live, decision, outbound,
                 buffer>>

\* The entry of a class that has been sent to the platform.
Finished(file, c) ==
  [file EXCEPT !.pendingEdit = @ \ {c}, !.pushed = @ \union {c},
     !.previous = [s \in Slots |-> IF s[1] = c THEN NotRecorded ELSE @[s]]]

\* Step B: setInstantiationAttributes merges the attributes it is given.
SetAttributes(c) ==
  /\ pc = "attributes" /\ c \in todo /\ cid \in exists
  /\ LET file == control[cid]
         Sent(s) == s[1] = c /\ file.attributes[s] # Absent
     IN  /\ platform' = [platform EXCEPT ![cid] =
              [s \in Slots |-> IF Sent(s) THEN file.attributes[s] ELSE @[s]]]
         /\ work' = [Finished(file, c) EXCEPT
              !.snapshot = @ \union {c},
              !.platformAttributes =
                 [s \in Slots |-> IF s[1] = c THEN file.attributes[s] ELSE @[s]]]
         /\ unseen' = unseen \ {s \in SlotsOf(c) : Sent(s)}
  /\ todo' = todo \ {c} /\ pc' = "record"
  /\ UNCHANGED <<disk, exists, edges, created, counts, strays, cleared, owed, entries,
                 late, cid, at, live, decision, outbound, buffer>>

RecordAttributes ==
  /\ pc = "record"
  /\ Save(work) /\ work' = NoFile /\ pc' = "attributes"
  /\ UNCHANGED <<refs, journal, server, counts, history, cid, at, todo, live, decision,
                 outbound, buffer>>

\* Step C: the SUPPORTS edges.
AssignEdges ==
  /\ pc = "attributes" /\ todo = {} /\ cid \in exists
  /\ edges' = edges \union {cid} /\ pc' = "finalise"
  /\ UNCHANGED <<disk, platform, exists, created, counts, history, cid, at, todo,
                 live, decision, work, outbound, buffer>>

\* Step D: all classes pushed.
Finalise ==
  /\ pc = "finalise"
  /\ IF Classes \subseteq control[cid].pushed
     THEN Save([control[cid] EXCEPT !.lifecycle = "brownfield"])
     ELSE control' = control
  /\ Return
  /\ UNCHANGED <<refs, journal, server, counts, history>>

-----------------------------------------------------------------------------
(* pushBrownfieldControl                                                   *)

\* shallowEqualAttrs fails for a class whose platform attributes are known.
Divergent(file) == {c \in file.snapshot :
  \E s \in SlotsOf(c) : file.attributes[s] # file.platformAttributes[s]}

\* Step C.  The attributes a pendingEdit recorded, the classes typed back
\* to what they were, and the attributes that Steps C and D look at.
Recorded(file) ==
  {s \in Slots : s[1] \in file.pendingEdit /\ file.previous[s] # NotRecorded}
Reverted(file) == {c \in file.pendingEdit :
  LET R == Recorded(file) \intersect SlotsOf(c)
  IN  R # {} /\ \A s \in R : file.previous[s] = file.attributes[s]}
Considered(file) == {s \in Recorded(file) : s[1] \notin Reverted(file)}
Prior(file) == {s \in Considered(file) : file.previous[s] # FirstWrite}
Blocked(file, seen) == {s \in Prior(file) : seen[s] = Absent}
NeverApplied(file, seen) == {}
Applied(file, seen) == {s \in Prior(file) : seen[s] = file.attributes[s]}
Conflicts(file, seen) == {s \in Prior(file) \ Applied(file, seen) :
  seen[s] # file.previous[s]}

\* The attributes that the skill asks the operator about: the platform holds
\* something else than the edit began from.
Reviewed(file, shown) ==
  {s \in Recorded(file) : file.previous[s] \notin {FirstWrite, shown[s]}}

\* The operator reviews what the skill fetched (freshPlatformAttrs), decides,
\* and calls push-brownfield with the decision.  Without a pendingEdit, or
\* with a divergence that none explains, Steps 0 and A end the call.
StartBrownfield(i) ==
  /\ Ready /\ i \in FileIds /\ control[i].lifecycle = "brownfield"
  /\ control[i].pendingEdit # {}
  /\ Divergent(control[i]) \subseteq control[i].pendingEdit
  /\ live' = platform[i] /\ cid' = i /\ pc' = "review"
  /\ \E answer \in [Reviewed(control[i], platform[i]) -> Choices] :
       decision' = [s \in Slots |->
                      IF s \in DOMAIN answer THEN answer[s] ELSE "undecided"]
  /\ UNCHANGED <<disk, server, counts, history, at, todo, work, outbound, buffer>>

\* Step D.  choice answers each conflict, merged is the value of a merge.
\* Every accepted attribute is written over the entry that Step D began
\* with, so a class keeps the last accepted one only (last).
Taken(choice) == {s \in DOMAIN choice : choice[s] = "accept-theirs"}
Outbound(file, seen, choice, merged) ==
  [s \in Slots |->
     IF s \notin Considered(file) \ (Applied(file, seen) \union Taken(choice)) THEN NoPush
     ELSE IF s \in DOMAIN choice /\ choice[s] = "merge" THEN merged
     ELSE file.attributes[s]]

\* The file after Steps B to D, with what they decide for classes that are
\* not sent: reverted, already applied, or all theirs.
Planned(file, seen, sent, last) ==
  LET pend == file.pendingEdit
      gone == {c \in pend : \A s \in SlotsOf(c) : sent[s] = NoPush}
      applied == {c \in gone \ Reverted(file) :
                    Considered(file) \intersect SlotsOf(c) \subseteq Applied(file, seen)}
  IN  [file EXCEPT
         !.attributes = [s \in Slots |-> IF s \in last THEN seen[s] ELSE @[s]],
         !.platformAttributes = [s \in Slots |-> IF s[1] \in pend THEN seen[s] ELSE @[s]],
         !.snapshot = @ \union pend,
         !.pendingEdit = @ \ gone,
         !.previous = [s \in Slots |-> IF s[1] \in gone THEN NotRecorded
                                       ELSE IF s \in last THEN seen[s] ELSE @[s]],
         !.edited = @ \ Reverted(file),
         !.pushed = @ \union applied]

\* Step B.  A transient failure of the read falls back on the preview, and
\* a Control that is gone from the platform has no rows, so the preview
\* serves too.
PreviewOnly(fetched) == live
Seen(fetched) == IF fetched /\ cid \in exists THEN platform[cid] ELSE live

\* Steps B to E.  Blocked attributes, an unanswered conflict and a cancelled
\* shared push end the call and change nothing.  The decision came with the
\* call: Step D looks it up by key, whatever value it was given for.
PushPlan(fetched) ==
  LET file == control[cid]
      seen == Seen(fetched)
      choice == [s \in Conflicts(file, seen) |-> decision[s]]
  IN  /\ pc = "review"
      /\ ~fetched => faults < MaxFaults
      /\ faults' = IF fetched THEN faults ELSE faults + 1
      /\ \/ /\ \/ Blocked(file, seen) # {}
               \/ \E s \in Conflicts(file, seen) : decision[s] = "undecided"
               \/ Shared /\ ~ Considered(file) \subseteq Applied(file, seen)
            /\ Return /\ UNCHANGED <<unseen, late>>
         \/ /\ Blocked(file, seen) = {}
            /\ \A s \in Conflicts(file, seen) : decision[s] # "undecided"
            /\ \E merged \in IF "merge" \in Choices THEN Values ELSE {NoPush},
                  last \in SUBSET Conflicts(file, seen) :
                 LET sent == Outbound(file, seen, choice, merged)
                     send == {c \in Classes : \E s \in SlotsOf(c) : sent[s] # NoPush}
                 IN  /\ last \subseteq Taken(choice)
                     /\ \A s \in Taken(choice) : \E t \in last : t[1] = s[1]
                     /\ \A s, t \in last : s[1] = t[1] => s = t
                     /\ outbound' = sent /\ todo' = send
                     /\ work' = Planned(file, seen, sent, last)
                     /\ pc' = IF send = {} THEN "write" ELSE "mutate"
                     /\ buffer' = Reverted(file)
                     /\ unseen' = unseen \ {s \in DOMAIN choice :
                          platform[cid][s] = IF s \in last THEN seen[s] ELSE live[s]}
                     /\ decision' = [s \in Slots |->
                          IF s \in DOMAIN choice THEN choice[s] ELSE "undecided"]
                     /\ late' = IF fetched THEN {} ELSE Slots
                     /\ live' = AllAbsent /\ UNCHANGED <<cid, at>>
      /\ UNCHANGED <<disk, server, foreign, edits, strays, cleared, owed, entries>>

\* Step F: one class is sent, and the file in memory is told what the
\* platform now holds.  The audit entry is buffered.
Mutate(c) ==
  /\ pc = "mutate" /\ c \in todo /\ cid \in exists
  /\ LET S == {s \in SlotsOf(c) : outbound[s] # NoPush}
         audited == Shared \/ \E s \in S : work.previous[s] = FirstWrite
     IN  /\ platform' = [platform EXCEPT ![cid] =
              [s \in Slots |-> IF s \in S THEN outbound[s] ELSE @[s]]]
         /\ work' = [Finished(work, c) EXCEPT !.platformAttributes =
              [s \in Slots |-> IF s \in S THEN work.attributes[s] ELSE @[s]]]
         /\ buffer' = IF audited THEN buffer \union {c} ELSE buffer
         /\ owed' = IF audited THEN owed \union {c} ELSE owed
         /\ unseen' = unseen \ S
  /\ todo' = todo \ {c}
  /\ pc' = IF todo' = {} THEN "write" ELSE "mutate"
  /\ UNCHANGED <<disk, exists, edges, created, counts, strays, cleared, entries, late,
                 cid, at, live, decision, outbound>>

FlushUnwritten ==
  /\ pc = "write"
  /\ IF buffer = {} THEN Save(work) /\ Return
     ELSE /\ pc' = "flush" /\ control' = control
          /\ UNCHANGED <<cid, at, todo, live, decision, work, outbound, buffer>>
  /\ UNCHANGED <<refs, journal, server, counts, history>>

\* The one write of a brownfield push or of a pull.
WriteFile ==
  /\ pc = "write"
  /\ Save(work)
  /\ IF buffer = {} THEN Return
     ELSE /\ pc' = "flush"
          /\ UNCHANGED <<cid, at, todo, live, decision, work, outbound, buffer>>
  /\ UNCHANGED <<refs, journal, server, counts, history>>

\* flushAudit appends the entries in turn.
Flush(c) ==
  /\ pc = "flush" /\ c \in buffer
  /\ entries' = [entries EXCEPT ![c] = @ + 1] /\ owed' = owed \ {c}
  /\ IF buffer = {c} THEN Return
     ELSE /\ buffer' = buffer \ {c}
          /\ UNCHANGED <<pc, cid, at, todo, live, decision, work, outbound>>
  /\ UNCHANGED <<disk, server, counts, strays, cleared, unseen, late>>

-----------------------------------------------------------------------------
(* Calls with a single effect                                              *)

PulledAfresh(file, seen) ==
  [file EXCEPT
     !.lifecycle = "brownfield", !.platformAttributes = seen, !.snapshot = Classes,
     !.attributes = seen, !.edited = {}, !.pendingEdit = {},
     !.previous = [s \in Slots |-> NotRecorded]]
\* pullControls: the platform's attributes are read, composed with the
\* pendingEdits of the file, and written.  A class with a pendingEdit keeps
\* its attributes and its localEditedAt.
Pulled(file, seen) ==
  LET pend == file.pendingEdit
  IN  [file EXCEPT
         !.lifecycle = "brownfield", !.platformAttributes = seen, !.snapshot = Classes,
         !.attributes = [s \in Slots |-> IF s[1] \in pend THEN @[s] ELSE seen[s]],
         !.edited = @ \intersect pend]

\* A Control gone from the platform is tombstoned if it was there.
Pull(i) ==
  /\ Ready /\ i \in FileIds \ {0} /\ control[i].lifecycle \in PullLives
  /\ i \in exists \/ control[i].lifecycle \in {"partially-pushed", "brownfield"}
  /\ IF i \in exists
     THEN /\ work' = Pulled(control[i], platform[i])
          /\ unseen' = {s \in unseen : s[1] \in control[i].pendingEdit}
     ELSE /\ work' = [control[i] EXCEPT !.lifecycle = "tombstoned"]
          /\ unseen' = unseen
  /\ cid' = i /\ pc' = "write"
  /\ UNCHANGED <<disk, server, counts, strays, cleared, owed, entries, late,
                 at, todo, live, decision, outbound, buffer>>

\* markTombstoned accepts any lifecycle.
Tombstone(i) ==
  /\ Ready /\ i \in FileIds /\ control[i].lifecycle # "tombstoned"
  /\ Save([control[i] EXCEPT !.lifecycle = "tombstoned"])
  /\ UNCHANGED <<refs, journal, server, call, counts, history>>

EditedKeepsDate(file, c, previous) ==
  [file EXCEPT !.pendingEdit = @ \union {c}, !.edited = @ \union {c}, !.previous = previous]
\* The entry of a class that takes an edit.
Edited(file, c, previous) ==
  [file EXCEPT !.pendingEdit = @ \union {c}, !.edited = @ \union {c},
               !.pushed = @ \ {c}, !.previous = previous]
\* A new pendingEdit has no audit entry yet.
NewIntent(file, c) ==
  entries' = IF c \in file.pendingEdit THEN entries ELSE [entries EXCEPT ![c] = 0]

BaselineRaw(file, s) ==
  IF file.previous[s] # NotRecorded THEN file.previous[s] ELSE file.attributes[s]
\* setLocalEdited: the first value before an edit stays the baseline.
Baseline(file, s) ==
  IF file.previous[s] # NotRecorded THEN file.previous[s]
  ELSE IF file.attributes[s] = Absent THEN FirstWrite ELSE file.attributes[s]

SetLocalEdited(i, s, v) ==
  /\ Ready /\ i \in FileIds /\ edits < MaxEdits
  /\ control[i].attributes[s] # v
  /\ LET file == control[i]
     IN  /\ Save([Edited(file, s[1], [file.previous EXCEPT ![s] = Baseline(file, s)])
                   EXCEPT !.attributes[s] = v])
         /\ NewIntent(file, s[1])
  /\ edits' = edits + 1
  /\ UNCHANGED <<refs, journal, server, call, faults, foreign, strays, cleared, owed,
                 unseen, late>>

\* promoteExternalEdit: the baseline is what the file knows of the platform;
\* JSON drops the baseline of an attribute that the platform does not have.
Promote(i, c) ==
  /\ Ready /\ i \in FileIds /\ c \notin control[i].pendingEdit
  /\ LET file == control[i]
         known == IF c \in file.snapshot THEN file.platformAttributes ELSE AllAbsent
         diverging == {s \in SlotsOf(c) :
                         file.attributes[s] \notin {Absent, known[s]}}
     IN  /\ diverging # {}
         /\ Save(Edited(file, c, [s \in Slots |->
              IF s \in diverging /\ known[s] # Absent THEN known[s] ELSE file.previous[s]]))
         /\ NewIntent(file, c)
  /\ UNCHANGED <<refs, journal, server, call, counts, strays, cleared, owed, unseen, late>>

\* Someone edits the attributes of the file in an editor.
HandEdit(i, s, v) ==
  /\ Ready /\ i \in FileIds /\ edits < MaxEdits
  /\ control[i].lifecycle = "brownfield" /\ s[1] \notin control[i].pendingEdit
  /\ control[i].attributes[s] # v
  /\ control' = [control EXCEPT ![i].attributes[s] = v]
  /\ edits' = edits + 1
  /\ UNCHANGED <<refs, journal, server, call, faults, foreign, history>>

-----------------------------------------------------------------------------
(* The environment                                                         *)

\* Another operator changes an attribute of the Control, or deletes it.
Foreign(i, s, v) ==
  /\ i \in exists /\ foreign < MaxForeign /\ platform[i][s] # v
  /\ platform' = [platform EXCEPT ![i][s] = v]
  /\ unseen' = unseen \union {s}
  /\ late' = IF pc = "mutate" THEN late \union {s} ELSE late
  /\ foreign' = foreign + 1
  /\ UNCHANGED <<disk, exists, edges, created, call, faults, edits, strays, cleared, owed,
                 entries>>

ForeignDelete(i) ==
  /\ i \in exists /\ foreign < MaxForeign
  /\ exists' = exists \ {i} /\ edges' = edges \ {i}
  /\ platform' = [platform EXCEPT ![i] = AllAbsent]
  /\ foreign' = foreign + 1
  /\ UNCHANGED <<disk, created, call, faults, edits, history>>

\* A mutation of a Control that is gone from the platform is refused.
PlatformRefuses ==
  /\ pc \in {"attributes", "mutate"} /\ cid \notin exists
  /\ Return
  /\ UNCHANGED <<disk, server, counts, history>>

\* The process dies, or a platform call or a file operation throws.
Fail ==
  /\ ~Idle /\ faults < MaxFaults
  /\ faults' = faults + 1
  /\ strays' = IF pc = "append" THEN strays + 1 ELSE strays
  /\ owed' = IF pc = "flush" THEN owed \ buffer ELSE owed
  /\ Return
  /\ UNCHANGED <<disk, server, foreign, edits, cleared, entries, unseen, late>>

Replay == BeginReplay \/ RewriteDoc \/ RewriteControl \/ Rename \/ UnlinkJournal
CallStep ==
  \/ CreateControl \/ AppendOperation \/ FlipLifecycle
  \/ \E c \in Classes : SetAttributes(c) \/ Mutate(c) \/ Flush(c)
  \/ RecordAttributes \/ AssignEdges \/ Finalise
  \/ \E fetched \in BOOLEAN : PushPlan(fetched)
  \/ WriteFile \/ PlatformRefuses

Next ==
  \/ Replay \/ CallStep \/ ClearWal \/ Fail
  \/ \E i \in Ids :
       \/ StartGreenfield(i) \/ StartBrownfield(i) \/ Pull(i) \/ Tombstone(i)
       \/ ForeignDelete(i)
       \/ \E c \in Classes : Promote(i, c)
       \/ \E s \in Slots, v \in Values :
            SetLocalEdited(i, s, v) \/ HandEdit(i, s, v) \/ Foreign(i, s, v)

Spec == Init /\ [][Next]_vars

\* A call runs to its end; the operator keeps calling push-greenfield.
FairSpec ==
  /\ Spec /\ WF_vars(Replay) /\ WF_vars(CallStep)
  /\ SF_vars(\E i \in Ids : StartGreenfield(i))

-----------------------------------------------------------------------------
(* Properties                                                              *)

\* Between calls, with no journal left to replay, the model documents and the
\* directory name one and the same Control: the id rewrite of
\* applyGreenfieldRewrite is all or nothing across crashes, unless the
\* operator deleted a journal that was not applied.
RefsAgree ==
  Idle /\ journal = 0 /\ ~cleared =>
    \E i \in Ids : /\ FileIds = {i} /\ control[i].id = i
                   /\ \A d \in DOMAIN refs : refs[d] = i

\* A crash never makes pushGreenfieldControl mint a second Control, but in
\* the window before appendOperation that its comment names.
OneControlPerPush == ~cleared => created <= 1 + strays

\* A partially-pushed Control becomes brownfield with its SUPPORTS edges and
\* all its attributes on the platform, whatever calls died before.
BrownfieldIsComplete ==
  [][\A i \in Ids :
       (/\ control[i] # NoFile /\ control'[i] # NoFile /\ i \in exists /\ ~cleared
        /\ control[i].lifecycle = "partially-pushed"
        /\ control'[i].lifecycle = "brownfield") =>
           /\ i \in edges
           /\ \A s \in Slots \ unseen : control'[i].attributes[s] = platform[i][s]]_vars

\* A pendingEdit of a Control leaves the file only when the platform holds
\* what the file holds of every attribute it recorded: pushed, applied by a
\* call that died, or theirs accepted where it is not the baseline; or the
\* operator typed the old value back, or someone writes it meanwhile.
EditEndsSettled ==
  [][\A i \in exists :
       control[i] # NoFile /\ control'[i] # NoFile /\ ~cleared =>
         \A s \in Recorded(control[i]) :
           s[1] \in control'[i].pendingEdit \/ s \in unseen
           \/ /\ control'[i].attributes[s] = platform[i][s]
              /\ \/ control'[i].attributes[s] = control[i].attributes[s]
                 \/ control[i].previous[s] # platform[i][s]
           \/ control[i].attributes[s] = control[i].previous[s]]_vars

\* What Step F is about to overwrite is what the operator's edit began from,
\* or the operator was asked about the attribute and answered: Step B's read
\* closes the window of the review for every attribute that was in no
\* conflict when the operator looked, and leaves that of the mutations (late).
NoBlindOverwrite ==
  pc = "mutate" /\ cid \in exists =>
    \A s \in unseen \ late :
      (/\ s[1] \in todo /\ outbound[s] # NoPush
       /\ decision[s] = "undecided"
       /\ control[cid].previous[s] \in Values) =>
        platform[cid][s] = control[cid].previous[s]

\* The same of the attributes that were decided on: what is overwritten is a
\* value that the operator was shown.  Step D does not do this: it applies
\* the decision by key, to whatever value Step B has read.
OverwritesOnlyWhatWasShown ==
  pc = "mutate" /\ cid \in exists =>
    \A s \in unseen \ late :
      (/\ s[1] \in todo /\ outbound[s] # NoPush
       /\ control[cid].previous[s] \in Values) =>
        platform[cid][s] = control[cid].previous[s]

\* A push tried again after its mutation went through and the call died
\* meets no conflict with itself.
RetryHasNoConflict ==
  pc = "review" /\ foreign = 0 /\ edits <= 1 =>
    Conflicts(control[cid], platform[cid]) = {}

\* An edit is audited at most once, however often its push is retried.
AuditOnce == \A c \in Classes : entries[c] <= 1

\* A class that was sent with an audit entry due has it written, or keeps
\* the pendingEdit from which a retry writes it: a retry's already-applied
\* path counts on the attempt that died to have audited.
AppliedIsAudited ==
  Idle => \A c \in owed, i \in FileIds \intersect exists : c \in control[i].pendingEdit

\* An operator who keeps pushing gets the Control onto the platform and
\* through to brownfield, whatever calls died on the way.
EventuallyPublished ==
  <>(cleared \/ \E i \in FileIds :
       \/ control[i].lifecycle \in {"brownfield", "tombstoned"}
       \/ i # 0 /\ i \notin exists)
=============================================================================

---------------------- MODULE ControlLibrary_proofs ----------------------
(***************************************************************************)
(* The control library keeps one file per Control and one Control per      *)
(* file, publishes it completely, overwrites nothing the operator has not  *)
(* seen, meets no conflict with itself, ends an edit when it is on the     *)
(* platform and audits it once at most: proofs for any classes,            *)
(* attributes, values and documents, and any number of calls, crashes,     *)
(* edits and changes by others.                                            *)
(***************************************************************************)
EXTENDS ControlLibrary, TLAPS

-----------------------------------------------------------------------------
(* The inductive invariants *)

\* What a pendingEdit block records of an attribute is about a class that has
\* one, and the attribute has a value.
FileOK(f) ==
  \A s \in Slots : f.previous[s] # NotRecorded =>
    s[1] \in f.pendingEdit /\ f.attributes[s] \in Values

\* A file lies at the path of its id; only a journal that is being replayed, or
\* was deleted half way, leaves a greenfield file with its new id at the old path.
FilesInv ==
  /\ \A i \in FileIds : /\ FileOK(control[i])
                        /\ control[i].id = i \/ (i = 0 /\ control[0].lifecycle = "greenfield")
  /\ 0 \in FileIds => control[0].lifecycle \in {"greenfield", "tombstoned"}

\* The call works on the file of a Control of the platform...
HasFile == cid # 0 /\ cid \in FileIds /\ control[cid].id = cid
\* ... and holds a version of it in memory.
HasWork == cid # 0 /\ work \in ControlFile /\ FileOK(work) /\ work.id = cid

\* Where a replay is.
ReplayInv ==
  pc = "replay" =>
    /\ journal # 0 /\ at \in 1..(Len(Docs) + 3) /\ cid \in {0, journal}
    /\ (cid # 0 /\ at <= Len(Docs) + 2) => 0 \in FileIds
    /\ (at = Len(Docs) + 2 /\ 0 \in FileIds) => control[0].id = journal
    /\ (cid # 0 /\ at = Len(Docs) + 3) => HasFile

\* What a call relies on between two of its steps.
CallInv ==
  /\ strays <= faults
  /\ pc = "idle" => cid = 0
  /\ journal # 0 => pc \in {"idle", "replay"}
                    /\ (0 \in FileIds => control[0].lifecycle = "greenfield")
  /\ pc \in {"create", "append"} => /\ 0 \in FileIds /\ control[0].id = 0
                                    /\ control[0].lifecycle = "greenfield"
  /\ pc = "append" => cid = created /\ cid # 0
  /\ pc \in {"flip", "record", "mutate", "write"} => HasWork
  /\ pc \in {"attributes", "record", "finalise", "review", "mutate", "write"} => HasFile

Inv == TypeOK /\ FilesInv /\ ReplayInv /\ CallInv

\* The file and the documents while their id is rewritten.
Rewriting ==
  /\ \/ FileIds = {0} /\ \A d \in DOMAIN refs : refs[d] \in {0, journal}
     \/ FileIds = {journal} /\ \A d \in DOMAIN refs : refs[d] = journal
  /\ pc = "replay" =>
       /\ \A k \in DOMAIN Docs : k < at => refs[Docs[k]] = journal
       /\ at = Len(Docs) + 3 => FileIds = {journal}

\* One file, named by every document, unless an operator deleted a journal.
NamesInv ==
  /\ journal = 0 => \E i \in Ids : FileIds = {i} /\ \A d \in DOMAIN refs : refs[d] = i
  /\ journal # 0 => Rewriting
  /\ pc = "flip" => cid \in FileIds
  /\ (pc # "append" /\ journal = 0 /\ 0 \in FileIds) => control[0].id = 0
  /\ created <= 1 + strays
  /\ (pc # "append" /\ journal = 0 /\ 0 \in FileIds) => created <= strays

RefsInv == ~cleared => NamesInv

\* An edit that is pending has no audit entry, and neither has one that is about
\* to get it.
EditsInv ==
  /\ \A i \in FileIds : \A c \in control[i].pendingEdit : entries[c] = 0
  /\ \A c \in buffer : entries[c] = 0
  /\ AuditOnce
  /\ pc \in {"flip", "record", "mutate", "write"} => work.pendingEdit \subseteq control[cid].pendingEdit
  /\ pc = "mutate" => todo \subseteq control[cid].pendingEdit
  /\ pc \in {"mutate", "write"} => buffer \subseteq control[cid].pendingEdit \ work.pendingEdit
  /\ pc = "flush" => \A i \in FileIds : buffer \intersect control[i].pendingEdit = {}
  /\ pc \notin {"mutate", "write", "flush"} => buffer = {}

AuditInv == ~cleared => EditsInv

\* What has been pushed of file f is on the platform as Control i, unless somebody
\* else wrote it.
Synced(f, i) ==
  \A s \in Slots \ unseen :
    /\ f.attributes[s] = Absent => platform[i][s] = Absent
    /\ s[1] \in f.pushed => f.attributes[s] = platform[i][s]

Unpublished == {"greenfield", "partially-pushed"}

\* On the way to brownfield: the files...
FilesPushed ==
  /\ 0 \in FileIds => /\ control[0].lifecycle = "greenfield" => control[0].pushed = {}
                      /\ \A j \in Ids, s \in Slots : platform[j][s] = Absent \/ s \in unseen
  /\ \A i \in FileIds \ {0} :
       (i \in exists /\ control[i].lifecycle \in Unpublished) => Synced(control[i], i)

\* ... and the call.
CallPushed ==
  /\ (pc = "replay" /\ cid # 0 /\ at = Len(Docs) + 3) => control[cid].lifecycle = "greenfield"
  /\ pc \in {"flip", "record"} => /\ work.lifecycle \in Unpublished
                                  /\ cid \in exists => Synced(work, cid)
  /\ pc \in {"attributes", "record", "finalise"} => control[cid].lifecycle = "partially-pushed"
  /\ pc = "record" => work.lifecycle = "partially-pushed"
  /\ (pc = "finalise" /\ cid \in exists) => cid \in edges
  /\ pc \in {"review", "mutate"} => control[cid].lifecycle = "brownfield"
  /\ pc = "write" => control[cid].lifecycle \in {"brownfield", "tombstoned"}
  /\ pc \in {"mutate", "write"} => work.lifecycle \in {"brownfield", "tombstoned"}

PushInv == FilesPushed /\ CallPushed

CompleteInv == ~cleared => PushInv

\* While nobody else writes and at most one edit was made (n), file f knows what its
\* Control holds on the platform (p), but for the edit it waits to push.
Agrees(f, p, n) ==
  /\ f.pushed \intersect f.pendingEdit = {}
  /\ f.lifecycle \in Unpublished => f.snapshot \subseteq f.pushed \union f.pendingEdit
  /\ \A s \in Slots :
       /\ s[1] \in f.snapshot \ f.pendingEdit => f.platformAttributes[s] = p[s]
       /\ (f.lifecycle = "brownfield" /\ f.previous[s] \in Values)
             => p[s] \in {f.previous[s], f.attributes[s]}
       /\ (f.lifecycle = "brownfield" /\ n = 0) => f.attributes[s] = p[s]
       /\ (f.lifecycle # "tombstoned" /\ n = 0) =>
             /\ f.previous[s] = NotRecorded
             /\ s[1] \in f.snapshot => f.attributes[s] = f.platformAttributes[s]

\* A file that has never been pushed.
Fresh(f, n) ==
  /\ f.pushed = {} /\ f.snapshot = {} /\ f.lifecycle # "brownfield"
  /\ (f.lifecycle # "tombstoned" /\ n = 0) => \A s \in Slots : f.previous[s] = NotRecorded

FilesQuiet ==
  /\ unseen = {}
  /\ journal # 0 => journal \in exists
  /\ pc = "append" => cid \in exists
  /\ \A i \in FileIds \ {0} : i \in exists /\ Agrees(control[i], platform[i], edits)
  /\ 0 \in FileIds => Fresh(control[0], edits)

CallQuiet ==
  /\ pc \in {"flip", "record", "mutate", "write"} => Agrees(work, platform[cid], edits)
  /\ pc = "review" => live = platform[cid]
  /\ pc = "mutate" =>
       /\ work.attributes = control[cid].attributes
       /\ \A s \in Slots : /\ outbound[s] \in {NoPush, control[cid].attributes[s]}
                           /\ s[1] \in todo => work.platformAttributes[s] = platform[cid][s]

QuietInv == FilesQuiet /\ CallQuiet

NoConflictInv == (~cleared /\ foreign = 0 /\ edits <= 1) => QuietInv

\* What the call's file g says of attribute s, which the file f on disk waits to push,
\* is what the platform holds (p): ours, or theirs where it is not the baseline; or the
\* old value was typed back.
Settles(f, g, p, s) ==
  \/ /\ g.attributes[s] = p[s]
     /\ g.attributes[s] = f.attributes[s] \/ f.previous[s] # p[s]
  \/ f.attributes[s] = f.previous[s]

\* What the call decides of a pending edit it decides from what the platform holds, and
\* it takes the edit from its file when that has been sent.
SettleInv ==
  /\ pc = "flip" => work = control[cid]
  /\ (pc = "review" /\ cid \in exists) => \A s \in Slots \ unseen : live[s] = platform[cid][s]
  /\ (pc \in {"record", "mutate", "write"} /\ cid \in exists) =>
       \A s \in Recorded(control[cid]) \ unseen :
         s[1] \in work.pendingEdit \/ Settles(control[cid], work, platform[cid], s)
  /\ (pc = "mutate" /\ cid \in exists) =>
       \A s \in Recorded(control[cid]) : s[1] \in todo =>
         \/ outbound[s] = NoPush /\ (s \in unseen \/ Settles(control[cid], work, platform[cid], s))
         \/ /\ outbound[s] # NoPush /\ outbound[s] = control[cid].attributes[s]
            /\ work.attributes[s] = control[cid].attributes[s]

EndsInv == ~cleared => SettleInv

-----------------------------------------------------------------------------
(* Files *)

LEMMA Bounds ==
  /\ MaxCreates \in Nat /\ MaxFaults \in Nat /\ MaxForeign \in Nat /\ MaxEdits \in Nat
  /\ Ids = 0..MaxCreates /\ 0 \in Ids /\ Len(Docs) \in Nat /\ Docs \in Seq(STRING)
  /\ Absent \notin Values /\ NotRecorded \notin Values /\ FirstWrite \notin Values
  /\ NoPush \notin Values /\ AllAbsent \in Attrs /\ FirstValue \in Attrs
BY BoundsAssumption, InputsAssumption, MarkersAssumption, ValuesAssumption
   DEF Ids, Markers, AllAbsent, Attrs

LEMMA SlotClass == ASSUME NEW s \in Slots PROVE s[1] \in Classes
BY DEF Classes

LEMMA NewFile == NewControl \in ControlFile /\ FileOK(NewControl)
<1>1. [s \in Slots |-> NotRecorded] \in [Slots -> Values \union {NotRecorded, FirstWrite}]
  OBVIOUS
<1> QED
  BY <1>1, Bounds DEF NewControl, ControlFile, FileOK, Lifecycles

\* The classes that are sent lose their pendingEdit block.
LEMMA FinishedFile ==
  ASSUME NEW f \in ControlFile, FileOK(f), NEW c \in Classes
  PROVE  /\ Finished(f, c) \in ControlFile /\ FileOK(Finished(f, c))
         /\ Finished(f, c).id = f.id /\ Finished(f, c).lifecycle = f.lifecycle
         /\ Finished(f, c).attributes = f.attributes
         /\ Finished(f, c).platformAttributes = f.platformAttributes
         /\ Finished(f, c).snapshot = f.snapshot
         /\ Finished(f, c).pendingEdit = f.pendingEdit \ {c}
         /\ Finished(f, c).pushed = f.pushed \union {c}
         /\ \A s \in Slots : Finished(f, c).previous[s] =
                               IF s[1] = c THEN NotRecorded ELSE f.previous[s]
<1>0. f.previous \in [Slots -> Values \union {NotRecorded, FirstWrite}]
  BY DEF ControlFile
<1> DEFINE prev == [s \in Slots |-> IF s[1] = c THEN NotRecorded ELSE f.previous[s]]
<1>1. prev \in [Slots -> Values \union {NotRecorded, FirstWrite}]
  BY <1>0
<1> DEFINE g == Finished(f, c)
<1>2. g = [f EXCEPT !.pendingEdit = f.pendingEdit \ {c}, !.pushed = f.pushed \union {c},
                    !.previous = prev]
  BY DEF Finished, ControlFile
<1>3. \A s \in Slots : prev[s] = IF s[1] = c THEN NotRecorded ELSE f.previous[s]
  OBVIOUS
<1> HIDE DEF prev, g
<1>4. /\ g \in ControlFile /\ g.id = f.id /\ g.lifecycle = f.lifecycle
      /\ g.attributes = f.attributes /\ g.platformAttributes = f.platformAttributes
      /\ g.snapshot = f.snapshot /\ g.pendingEdit = f.pendingEdit \ {c}
      /\ g.pushed = f.pushed \union {c} /\ g.previous = prev
  BY <1>1, <1>2 DEF ControlFile
<1>5. FileOK(g)
  BY <1>3, <1>4 DEF FileOK
<1> QED
  BY <1>3, <1>4, <1>5 DEF g

\* An edit of class c, with its new baselines and attributes.
LEMMA EditedFile ==
  ASSUME NEW f \in ControlFile, FileOK(f), NEW c \in Classes,
         NEW prev \in [Slots -> Values \union {NotRecorded, FirstWrite}],
         NEW attrs \in Attrs,
         \A s \in Slots : prev[s] # NotRecorded =>
           (s[1] = c \/ prev[s] = f.previous[s]) /\ attrs[s] \in Values
  PROVE  LET g == [Edited(f, c, prev) EXCEPT !.attributes = attrs]
         IN  /\ g \in ControlFile /\ FileOK(g) /\ g.id = f.id /\ g.lifecycle = f.lifecycle
             /\ g.attributes = attrs /\ g.platformAttributes = f.platformAttributes
             /\ g.snapshot = f.snapshot /\ g.pendingEdit = f.pendingEdit \union {c}
             /\ g.pushed = f.pushed \ {c} /\ g.previous = prev
<1> DEFINE g == [Edited(f, c, prev) EXCEPT !.attributes = attrs]
<1>1. g = [f EXCEPT !.attributes = attrs, !.pendingEdit = f.pendingEdit \union {c},
             !.edited = f.edited \union {c}, !.pushed = f.pushed \ {c}, !.previous = prev]
  BY DEF Edited, ControlFile
<1> HIDE DEF g
<1>2. /\ g \in ControlFile /\ g.id = f.id /\ g.lifecycle = f.lifecycle
      /\ g.attributes = attrs /\ g.platformAttributes = f.platformAttributes
      /\ g.snapshot = f.snapshot /\ g.pendingEdit = f.pendingEdit \union {c}
      /\ g.pushed = f.pushed \ {c} /\ g.previous = prev
  BY <1>1 DEF ControlFile
<1>3. FileOK(g)
  BY <1>2 DEF FileOK
<1> QED
  BY <1>2, <1>3 DEF g

\* A file with another lifecycle or another id.
LEMMA MovedFile ==
  ASSUME NEW f \in ControlFile, FileOK(f), NEW life \in Lifecycles
  PROVE  LET g == [f EXCEPT !.lifecycle = life]
         IN  /\ g \in ControlFile /\ FileOK(g) /\ g.id = f.id /\ g.lifecycle = life
             /\ g.pendingEdit = f.pendingEdit /\ g.pushed = f.pushed /\ g.snapshot = f.snapshot
             /\ g.attributes = f.attributes /\ g.previous = f.previous
             /\ g.platformAttributes = f.platformAttributes
BY DEF ControlFile, FileOK

LEMMA RenumberedFile ==
  ASSUME NEW f \in ControlFile, FileOK(f), NEW i \in Ids
  PROVE  LET g == [f EXCEPT !.id = i]
         IN  /\ g \in ControlFile /\ FileOK(g) /\ g.id = i /\ g.lifecycle = f.lifecycle
             /\ g.pendingEdit = f.pendingEdit /\ g.previous = f.previous
             /\ g.pushed = f.pushed /\ g.snapshot = f.snapshot
BY DEF ControlFile, FileOK

\* What a pull composes.
LEMMA PulledFile ==
  ASSUME NEW f \in ControlFile, FileOK(f), NEW seen \in Attrs
  PROVE  /\ Pulled(f, seen) \in ControlFile /\ FileOK(Pulled(f, seen))
         /\ Pulled(f, seen).id = f.id /\ Pulled(f, seen).lifecycle = "brownfield"
         /\ Pulled(f, seen).pendingEdit = f.pendingEdit /\ Pulled(f, seen).pushed = f.pushed
         /\ Pulled(f, seen).platformAttributes = seen /\ Pulled(f, seen).previous = f.previous
         /\ \A s \in Slots : Pulled(f, seen).attributes[s] =
                               IF s[1] \in f.pendingEdit THEN f.attributes[s] ELSE seen[s]
<1>0. f.attributes \in Attrs /\ f.pendingEdit \in SUBSET Classes
  BY DEF ControlFile
<1> DEFINE attrs == [s \in Slots |-> IF s[1] \in f.pendingEdit THEN f.attributes[s] ELSE seen[s]]
<1>1. attrs \in Attrs
  BY <1>0 DEF Attrs
<1>2. Pulled(f, seen) = [f EXCEPT !.lifecycle = "brownfield", !.platformAttributes = seen,
         !.snapshot = Classes, !.attributes = attrs, !.edited = f.edited \intersect f.pendingEdit]
  BY DEF Pulled, ControlFile
<1>3. \A s \in Slots : attrs[s] = IF s[1] \in f.pendingEdit THEN f.attributes[s] ELSE seen[s]
  OBVIOUS
<1> HIDE DEF attrs
<1>4. /\ Pulled(f, seen) \in ControlFile
      /\ Pulled(f, seen).id = f.id /\ Pulled(f, seen).lifecycle = "brownfield"
      /\ Pulled(f, seen).pendingEdit = f.pendingEdit /\ Pulled(f, seen).pushed = f.pushed
      /\ Pulled(f, seen).platformAttributes = seen /\ Pulled(f, seen).previous = f.previous
      /\ Pulled(f, seen).attributes = attrs
  BY <1>1, <1>2 DEF ControlFile, Lifecycles
<1>5. FileOK(Pulled(f, seen))
  BY <1>3, <1>4 DEF FileOK
<1> QED
  BY <1>3, <1>4, <1>5

\* What Steps B to D make of the file.  Accepted attributes have a value.
LEMMA PlannedFile ==
  ASSUME NEW f \in ControlFile, FileOK(f), NEW seen \in Attrs, NEW sent, NEW last \in SUBSET Slots,
         \A s \in last : seen[s] \in Values /\ s[1] \in f.pendingEdit
  PROVE  LET g == Planned(f, seen, sent, last)
             gone == {c \in f.pendingEdit : \A s \in SlotsOf(c) : sent[s] = NoPush}
         IN  /\ g \in ControlFile /\ FileOK(g) /\ g.id = f.id /\ g.lifecycle = f.lifecycle
             /\ g.pendingEdit = f.pendingEdit \ gone
             /\ g.snapshot = f.snapshot \union f.pendingEdit
             /\ \A c \in g.pushed : c \in f.pushed \/ c \in gone
             /\ \A s \in Slots :
                  /\ g.attributes[s] = IF s \in last THEN seen[s] ELSE f.attributes[s]
                  /\ g.platformAttributes[s] = IF s[1] \in f.pendingEdit THEN seen[s]
                                                                        ELSE f.platformAttributes[s]
                  /\ g.previous[s] = IF s[1] \in gone THEN NotRecorded
                                     ELSE IF s \in last THEN seen[s] ELSE f.previous[s]
<1> DEFINE g == Planned(f, seen, sent, last)
           gone == {c \in f.pendingEdit : \A s \in SlotsOf(c) : sent[s] = NoPush}
           applied == {c \in gone \ Reverted(f) :
                         Considered(f) \intersect SlotsOf(c) \subseteq Applied(f, seen)}
           attrs == [s \in Slots |-> IF s \in last THEN seen[s] ELSE f.attributes[s]]
           plat == [s \in Slots |-> IF s[1] \in f.pendingEdit THEN seen[s]
                                                              ELSE f.platformAttributes[s]]
           prev == [s \in Slots |-> IF s[1] \in gone THEN NotRecorded
                                    ELSE IF s \in last THEN seen[s] ELSE f.previous[s]]
<1>0. /\ f.attributes \in Attrs /\ f.platformAttributes \in Attrs
      /\ f.pendingEdit \in SUBSET Classes
      /\ f.previous \in [Slots -> Values \union {NotRecorded, FirstWrite}]
  BY DEF ControlFile
<1>1. /\ attrs \in Attrs /\ plat \in Attrs
      /\ prev \in [Slots -> Values \union {NotRecorded, FirstWrite}]
      /\ applied \in SUBSET gone /\ gone \in SUBSET f.pendingEdit
  BY <1>0 DEF Attrs
<1>2. g = [f EXCEPT !.attributes = attrs, !.platformAttributes = plat,
             !.snapshot = f.snapshot \union f.pendingEdit, !.pendingEdit = f.pendingEdit \ gone,
             !.previous = prev, !.edited = f.edited \ Reverted(f),
             !.pushed = f.pushed \union applied]
  BY DEF Planned, ControlFile
<1>3. \A s \in Slots :
        /\ attrs[s] = IF s \in last THEN seen[s] ELSE f.attributes[s]
        /\ plat[s] = IF s[1] \in f.pendingEdit THEN seen[s] ELSE f.platformAttributes[s]
        /\ prev[s] = IF s[1] \in gone THEN NotRecorded
                     ELSE IF s \in last THEN seen[s] ELSE f.previous[s]
  OBVIOUS
<1> HIDE DEF g, gone, applied, attrs, plat, prev
<1>4. /\ g \in ControlFile /\ g.id = f.id /\ g.lifecycle = f.lifecycle
      /\ g.pendingEdit = f.pendingEdit \ gone /\ g.snapshot = f.snapshot \union f.pendingEdit
      /\ g.pushed = f.pushed \union applied
      /\ g.attributes = attrs /\ g.platformAttributes = plat /\ g.previous = prev
  BY <1>0, <1>1, <1>2 DEF ControlFile
<1>5. FileOK(g)
  BY <1>1, <1>3, <1>4 DEF FileOK
<1>6. \A c \in g.pushed : c \in f.pushed \/ c \in gone
  BY <1>1, <1>4
<1> QED
  BY <1>3, <1>4, <1>5, <1>6 DEF g, gone

\* Writing a file.
LEMMA SavedFile ==
  ASSUME TypeOK, NEW f \in ControlFile, Save(f)
  PROVE  /\ control' \in [Ids -> ControlFile \union {NoFile}]
         /\ f.id \in Ids /\ control'[f.id] = f /\ \A i \in Ids : i # f.id => control'[i] = control[i]
         /\ FileIds' = FileIds \union {f.id}
<1>1. f.id \in Ids /\ f # NoFile
  BY FileAssumption DEF ControlFile
<1>2. control \in [Ids -> ControlFile \union {NoFile}]
  BY DEF TypeOK
<1>3. /\ control' \in [Ids -> ControlFile \union {NoFile}]
      /\ control'[f.id] = f /\ \A i \in Ids : i # f.id => control'[i] = control[i]
  BY <1>1, <1>2 DEF Save
<1> QED
  BY <1>1, <1>3 DEF FileIds

LEMMA SavedFiles ==
  ASSUME Inv, NEW f \in ControlFile, FileOK(f), Save(f),
         f.id = 0 => f.lifecycle \in {"greenfield", "tombstoned"}
  PROVE  FilesInv'
<1>1. /\ f.id \in Ids /\ control'[f.id] = f /\ \A i \in Ids : i # f.id => control'[i] = control[i]
      /\ FileIds' = FileIds \union {f.id}
  BY SavedFile DEF Inv
<1>2. FileIds \subseteq Ids
  BY DEF FileIds
<1>3. \A i \in FileIds' : i = f.id \/ (i \in FileIds /\ control'[i] = control[i])
  BY <1>1, <1>2
<1>4. \A i \in FileIds' : FileOK(control'[i])
                          /\ (control'[i].id = i \/ (i = 0 /\ control'[0].lifecycle = "greenfield"))
  BY <1>1, <1>3 DEF Inv, FilesInv
<1>5. 0 \in FileIds' => control'[0].lifecycle \in {"greenfield", "tombstoned"}
  BY <1>1, <1>3 DEF Inv, FilesInv
<1> QED
  BY <1>4, <1>5 DEF FilesInv

\* A file of the directory.
LEMMA FileFacts ==
  ASSUME TypeOK, NEW i \in FileIds
  PROVE  control[i] \in ControlFile /\ i \in Ids
BY DEF TypeOK, FileIds

-----------------------------------------------------------------------------
(* What the larger steps do *)

LEMMA RewriteControlEffect ==
  ASSUME Inv, RewriteControl
  PROVE  /\ control' \in [Ids -> ControlFile \union {NoFile}] /\ FileIds' = FileIds
         /\ \A i \in Ids \ {0} : control'[i] = control[i]
         /\ 0 \in FileIds => /\ FileOK(control'[0]) /\ control'[0].id = journal
                             /\ control'[0].lifecycle = control[0].lifecycle
                             /\ control'[0].pendingEdit = control[0].pendingEdit
                             /\ control'[0].pushed = control[0].pushed
                             /\ control'[0].snapshot = control[0].snapshot
                             /\ control'[0].previous = control[0].previous
<1>1. control \in [Ids -> ControlFile \union {NoFile}] /\ journal \in Ids
  BY DEF Inv, TypeOK
<1>2. CASE 0 \notin FileIds
  BY <1>1, <1>2, Bounds DEF RewriteControl, FileIds
<1>3. CASE 0 \in FileIds
  <2>1. control[0] \in ControlFile /\ FileOK(control[0]) /\ control[0] # NoFile
    BY <1>3, FileFacts DEF Inv, FilesInv, FileIds
  <2> DEFINE g == [control[0] EXCEPT !.id = journal]
  <2>2. control' = [control EXCEPT ![0] = g]
    BY <2>1 DEF RewriteControl
  <2>3. "greenfield" \in Lifecycles
    BY DEF Lifecycles
  <2>4. /\ g \in ControlFile /\ FileOK(g) /\ g.id = journal /\ g.lifecycle = control[0].lifecycle
        /\ g.pendingEdit = control[0].pendingEdit /\ g.pushed = control[0].pushed
        /\ g.snapshot = control[0].snapshot /\ g.previous = control[0].previous
    BY <1>1, <2>1, <2>3, RenumberedFile
  <2> HIDE DEF g
  <2>5. control' \in [Ids -> ControlFile \union {NoFile}] /\ control'[0] = g /\ g # NoFile
        /\ \A i \in Ids \ {0} : control'[i] = control[i]
    BY <1>1, <2>2, <2>4, Bounds, FileAssumption
  <2>6. FileIds' = FileIds
    BY <1>3, <2>5 DEF FileIds
  <2> QED
    BY <2>4, <2>5, <2>6
<1> QED
  BY <1>2, <1>3

LEMMA RenameEffect ==
  ASSUME Inv, Rename
  PROVE  /\ control' \in [Ids -> ControlFile \union {NoFile}] /\ journal # 0 /\ journal \in Ids
         /\ 0 \notin FileIds => control' = control /\ FileIds' = FileIds
         /\ 0 \in FileIds => /\ control'[journal] = control[0] /\ control[0].id = journal
                             /\ journal \notin FileIds
                             /\ control'[0] = NoFile
                             /\ FileIds' = (FileIds \ {0}) \union {journal}
         /\ \A i \in Ids \ {0, journal} : control'[i] = control[i]
<1>1. control \in [Ids -> ControlFile \union {NoFile}] /\ journal \in Ids
  BY DEF Inv, TypeOK
<1>2. journal # 0 /\ (0 \in FileIds => control[0].id = journal)
  <2>1. pc = "replay" /\ at = Len(Docs) + 2
    BY DEF Rename
  <2> QED
    BY <2>1 DEF Inv, ReplayInv
<1>3. CASE 0 \notin FileIds
  BY <1>1, <1>2, <1>3, Bounds DEF Rename, FileIds
<1>4. CASE 0 \in FileIds
  <2>1. /\ control[0] # NoFile /\ control[0] \in ControlFile /\ journal \notin FileIds
        /\ control' = [control EXCEPT ![0] = NoFile, ![journal] = control[0]]
    BY <1>4, FileFacts DEF Rename, FileIds, Inv
  <2>2. /\ control' \in [Ids -> ControlFile \union {NoFile}]
        /\ control'[journal] = control[0] /\ control'[0] = NoFile
        /\ \A i \in Ids \ {0, journal} : control'[i] = control[i]
    BY <1>1, <1>2, <2>1, Bounds
  <2>3. FileIds' = (FileIds \ {0}) \union {journal}
    BY <1>1, <1>2, <2>1, <2>2 DEF FileIds
  <2> QED
    BY <1>1, <1>2, <1>4, <2>1, <2>2, <2>3
<1> QED
  BY <1>3, <1>4

\* Step B sends a class that has not been sent, and only attributes with a value.
LEMMA SetAttributesEffect ==
  ASSUME Inv, NEW c \in Classes, SetAttributes(c)
  PROVE  LET f == control[cid]
         IN  /\ f \in ControlFile /\ FileOK(f) /\ f.id = cid /\ HasFile
             /\ platform' \in [Ids -> Attrs] /\ \A i \in Ids : i # cid => platform'[i] = platform[i]
             /\ \A s \in Slots : platform'[cid][s] = IF s[1] = c /\ f.attributes[s] # Absent
                                                     THEN f.attributes[s] ELSE platform[cid][s]
             /\ unseen' = unseen \ {s \in SlotsOf(c) : f.attributes[s] # Absent}
             /\ work' \in ControlFile /\ FileOK(work') /\ work'.id = cid
             /\ work'.lifecycle = f.lifecycle /\ work'.attributes = f.attributes
             /\ work'.pendingEdit = f.pendingEdit \ {c} /\ work'.pushed = f.pushed \union {c}
             /\ work'.snapshot = f.snapshot \union {c}
             /\ \A s \in Slots :
                  /\ work'.platformAttributes[s] = IF s[1] = c THEN f.attributes[s]
                                                               ELSE f.platformAttributes[s]
                  /\ work'.previous[s] = IF s[1] = c THEN NotRecorded ELSE f.previous[s]
<1> DEFINE f == control[cid]
<1>1. HasFile
  BY DEF Inv, CallInv, SetAttributes
<1>2. f \in ControlFile /\ FileOK(f) /\ f.id = cid
  BY <1>1, FileFacts DEF HasFile, Inv, FilesInv
<1>3. /\ f.attributes \in Attrs /\ f.platformAttributes \in Attrs /\ f.snapshot \in SUBSET Classes
  BY <1>2 DEF ControlFile
<1>4. platform \in [Ids -> Attrs] /\ cid \in Ids
  BY DEF Inv, TypeOK
<1> DEFINE plat == [s \in Slots |-> IF s[1] = c /\ f.attributes[s] # Absent
                                    THEN f.attributes[s] ELSE platform[cid][s]]
<1>5. plat \in Attrs /\ platform' = [platform EXCEPT ![cid] = plat]
  BY <1>3, <1>4 DEF Attrs, SetAttributes
<1>6. /\ platform' \in [Ids -> Attrs] /\ \A i \in Ids : i # cid => platform'[i] = platform[i]
      /\ \A s \in Slots : platform'[cid][s] = IF s[1] = c /\ f.attributes[s] # Absent
                                              THEN f.attributes[s] ELSE platform[cid][s]
  BY <1>4, <1>5
<1> DEFINE known == [s \in Slots |-> IF s[1] = c THEN f.attributes[s] ELSE f.platformAttributes[s]]
           h == Finished(f, c)
<1>7. /\ h \in ControlFile /\ FileOK(h) /\ h.id = f.id /\ h.lifecycle = f.lifecycle
      /\ h.attributes = f.attributes /\ h.platformAttributes = f.platformAttributes
      /\ h.snapshot = f.snapshot /\ h.pendingEdit = f.pendingEdit \ {c}
      /\ h.pushed = f.pushed \union {c}
      /\ \A s \in Slots : h.previous[s] = IF s[1] = c THEN NotRecorded ELSE f.previous[s]
  BY <1>2, FinishedFile
<1>8. known \in Attrs /\ h.snapshot \union {c} \in SUBSET Classes
  BY <1>3, <1>7 DEF Attrs
<1> HIDE DEF h
<1>9. work' = [h EXCEPT !.snapshot = h.snapshot \union {c}, !.platformAttributes = known]
  <2>1. work' = [h EXCEPT !.snapshot = @ \union {c},
                          !.platformAttributes = [s \in Slots |-> IF s[1] = c THEN f.attributes[s]
                                                                  ELSE @[s]]]
    BY DEF SetAttributes, h
  <2> QED
    BY <1>7, <2>1 DEF ControlFile
<1>10. \A s \in Slots : known[s] = IF s[1] = c THEN f.attributes[s] ELSE f.platformAttributes[s]
  OBVIOUS
<1> HIDE DEF known
<1>11. /\ work' \in ControlFile /\ work'.id = h.id /\ work'.lifecycle = h.lifecycle
       /\ work'.attributes = h.attributes /\ work'.platformAttributes = known
       /\ work'.snapshot = h.snapshot \union {c} /\ work'.pendingEdit = h.pendingEdit
       /\ work'.pushed = h.pushed /\ work'.previous = h.previous
  BY <1>7, <1>8, <1>9 DEF ControlFile
<1>12. FileOK(work')
  BY <1>7, <1>11 DEF FileOK
<1>13. unseen' = unseen \ {s \in SlotsOf(c) : f.attributes[s] # Absent}
  BY DEF SetAttributes, SlotsOf
<1> QED
  BY <1>1, <1>2, <1>6, <1>7, <1>10, <1>11, <1>12, <1>13

\* Step F sends a class and tells the file in memory.
LEMMA MutateEffect ==
  ASSUME Inv, NEW c \in Classes, Mutate(c)
  PROVE  /\ HasFile /\ HasWork
         /\ platform' \in [Ids -> Attrs] /\ \A i \in Ids : i # cid => platform'[i] = platform[i]
         /\ \A s \in Slots : platform'[cid][s] = IF s[1] = c /\ outbound[s] # NoPush
                                                 THEN outbound[s] ELSE platform[cid][s]
         /\ work' \in ControlFile /\ FileOK(work') /\ work'.id = cid
         /\ work'.lifecycle = work.lifecycle /\ work'.attributes = work.attributes
         /\ work'.pendingEdit = work.pendingEdit \ {c} /\ work'.pushed = work.pushed \union {c}
         /\ work'.snapshot = work.snapshot
         /\ \A s \in Slots :
              /\ work'.platformAttributes[s] = IF s[1] = c /\ outbound[s] # NoPush
                                               THEN work.attributes[s] ELSE work.platformAttributes[s]
              /\ work'.previous[s] = IF s[1] = c THEN NotRecorded ELSE work.previous[s]
<1>1. HasFile /\ HasWork
  BY DEF Inv, CallInv, Mutate
<1> DEFINE f == work
<1>2. f \in ControlFile /\ FileOK(f) /\ f.id = cid
  BY <1>1 DEF HasWork
<1>3. /\ f.attributes \in Attrs /\ f.platformAttributes \in Attrs /\ f.snapshot \in SUBSET Classes
  BY <1>2 DEF ControlFile
<1>4. /\ platform \in [Ids -> Attrs] /\ cid \in Ids
      /\ outbound \in [Slots -> Values \union {NoPush}]
  BY DEF Inv, TypeOK
<1> DEFINE plat == [s \in Slots |-> IF s[1] = c /\ outbound[s] # NoPush
                                    THEN outbound[s] ELSE platform[cid][s]]
<1>5. plat \in Attrs /\ platform' = [platform EXCEPT ![cid] = plat]
  <2>1. plat \in Attrs
    BY <1>4 DEF Attrs
  <2>2. platform' = [platform EXCEPT ![cid] =
           [s \in Slots |-> IF s \in {t \in SlotsOf(c) : outbound[t] # NoPush} THEN outbound[s]
                            ELSE platform[cid][s]]]
    BY <1>4 DEF Mutate
  <2>3. \A s \in Slots : s \in {t \in SlotsOf(c) : outbound[t] # NoPush}
                         <=> (s[1] = c /\ outbound[s] # NoPush)
    BY DEF SlotsOf
  <2> QED
    BY <2>1, <2>2, <2>3
<1>6. /\ platform' \in [Ids -> Attrs] /\ \A i \in Ids : i # cid => platform'[i] = platform[i]
      /\ \A s \in Slots : platform'[cid][s] = IF s[1] = c /\ outbound[s] # NoPush
                                              THEN outbound[s] ELSE platform[cid][s]
  BY <1>4, <1>5
<1> DEFINE known == [s \in Slots |-> IF s[1] = c /\ outbound[s] # NoPush
                                     THEN f.attributes[s] ELSE f.platformAttributes[s]]
           h == Finished(f, c)
<1>7. /\ h \in ControlFile /\ FileOK(h) /\ h.id = f.id /\ h.lifecycle = f.lifecycle
      /\ h.attributes = f.attributes /\ h.platformAttributes = f.platformAttributes
      /\ h.snapshot = f.snapshot /\ h.pendingEdit = f.pendingEdit \ {c}
      /\ h.pushed = f.pushed \union {c}
      /\ \A s \in Slots : h.previous[s] = IF s[1] = c THEN NotRecorded ELSE f.previous[s]
  BY <1>2, FinishedFile
<1>8. known \in Attrs /\ h.snapshot \in SUBSET Classes
  BY <1>3, <1>7 DEF Attrs
<1> HIDE DEF h
<1>9. work' = [h EXCEPT !.snapshot = h.snapshot, !.platformAttributes = known]
  <2>1. work' = [h EXCEPT !.platformAttributes =
           [s \in Slots |-> IF s \in {t \in SlotsOf(c) : outbound[t] # NoPush} THEN f.attributes[s]
                            ELSE @[s]]]
    BY DEF Mutate, h
  <2>2. \A s \in Slots : s \in {t \in SlotsOf(c) : outbound[t] # NoPush}
                         <=> (s[1] = c /\ outbound[s] # NoPush)
    BY DEF SlotsOf
  <2>3. [s \in Slots |-> IF s \in {t \in SlotsOf(c) : outbound[t] # NoPush} THEN f.attributes[s]
                         ELSE h.platformAttributes[s]] = known
    BY <1>7, <2>2
  <2>4. work' = [h EXCEPT !.platformAttributes = known]
    BY <1>7, <2>1, <2>3 DEF ControlFile
  <2> HIDE DEF known
  <2> QED
    BY <1>7, <2>4 DEF ControlFile
<1>10. \A s \in Slots : known[s] = IF s[1] = c /\ outbound[s] # NoPush
                                   THEN f.attributes[s] ELSE f.platformAttributes[s]
  OBVIOUS
<1> HIDE DEF known
<1>11. /\ work' \in ControlFile /\ work'.id = h.id /\ work'.lifecycle = h.lifecycle
       /\ work'.attributes = h.attributes /\ work'.platformAttributes = known
       /\ work'.snapshot = h.snapshot /\ work'.pendingEdit = h.pendingEdit
       /\ work'.pushed = h.pushed /\ work'.previous = h.previous
  BY <1>7, <1>8, <1>9 DEF ControlFile
<1>12. FileOK(work')
  BY <1>7, <1>11 DEF FileOK
<1> QED
  BY <1>1, <1>2, <1>6, <1>7, <1>10, <1>11, <1>12

\* What Steps B to D hand to Step F.
PlanMade ==
  LET f == control[cid]
  IN  /\ HasFile /\ f \in ControlFile /\ FileOK(f) /\ cid' = cid /\ at' = at /\ live' = AllAbsent
      /\ decision' \in [Slots -> Choices \union {"undecided"}]
      /\ pc' \in {"mutate", "write"} /\ outbound' \in [Slots -> Values \union {NoPush}]
      /\ todo' \subseteq f.pendingEdit /\ unseen' \subseteq unseen /\ late' \subseteq Slots
      /\ work' \in ControlFile /\ FileOK(work') /\ work'.id = cid
      /\ work'.lifecycle = f.lifecycle /\ work'.pendingEdit \subseteq f.pendingEdit
      /\ buffer' \subseteq f.pendingEdit \ work'.pendingEdit
      /\ \A s \in unseen' \ late' :
           (/\ outbound'[s] # NoPush /\ decision'[s] = "undecided"
            /\ f.previous[s] \in Values /\ cid \in exists) =>
             platform[cid][s] = f.previous[s]

\* A push that goes on has no blocked attribute, an answer to every conflict, and a plan.
LEMMA PlanDrawn ==
  ASSUME NEW fetched \in BOOLEAN, PushPlan(fetched), ~(Return /\ UNCHANGED <<unseen, late>>)
  PROVE  LET f == control[cid]
             seen == Seen(fetched)
             choice == [s \in Conflicts(f, seen) |-> decision[s]]
         IN  /\ Blocked(f, seen) = {}
             /\ \A s \in Conflicts(f, seen) : decision[s] # "undecided"
             /\ \E merged \in IF "merge" \in Choices THEN Values ELSE {NoPush},
                   last \in SUBSET Conflicts(f, seen) :
                  LET sent == Outbound(f, seen, choice, merged)
                      send == {c \in Classes : \E s \in SlotsOf(c) : sent[s] # NoPush}
                  IN  /\ last \subseteq Taken(choice)
                      /\ \A s \in Taken(choice) : \E t \in last : t[1] = s[1]
                      /\ \A s, t \in last : s[1] = t[1] => s = t
                      /\ outbound' = sent /\ todo' = send
                      /\ work' = Planned(f, seen, sent, last)
                      /\ pc' = IF send = {} THEN "write" ELSE "mutate"
                      /\ buffer' = Reverted(f)
                      /\ unseen' = unseen \ {s \in DOMAIN choice :
                           platform[cid][s] = IF s \in last THEN seen[s] ELSE live[s]}
                      /\ decision' = [s \in Slots |->
                           IF s \in DOMAIN choice THEN choice[s] ELSE "undecided"]
                      /\ late' = IF fetched THEN {} ELSE Slots
                      /\ live' = AllAbsent /\ UNCHANGED <<cid, at>>
BY Zenon DEF PushPlan

LEMMA PushPlanEffect ==
  ASSUME Inv, NEW fetched \in BOOLEAN, PushPlan(fetched)
  PROVE  (Return /\ UNCHANGED <<unseen, late>>) \/ PlanMade
<1> DEFINE f == control[cid]
           seen == Seen(fetched)
<1>1. HasFile /\ pc = "review"
  BY DEF Inv, CallInv, PushPlan
<1>2. f \in ControlFile /\ FileOK(f) /\ f.id = cid
  BY <1>1, FileFacts DEF HasFile, Inv, FilesInv
<1>3. /\ f.attributes \in Attrs /\ f.pendingEdit \in SUBSET Classes
      /\ f.previous \in [Slots -> Values \union {NotRecorded, FirstWrite}]
  BY <1>2 DEF ControlFile
<1>4. /\ platform \in [Ids -> Attrs] /\ cid \in Ids /\ live \in Attrs /\ unseen \subseteq Slots
  BY DEF Inv, TypeOK
<1>5. seen \in Attrs
  BY <1>4 DEF Seen
<1> HIDE DEF f
<1>6. CASE Return /\ UNCHANGED <<unseen, late>>
  BY <1>6
<1>7. CASE ~(Return /\ UNCHANGED <<unseen, late>>)
  <2> DEFINE choice == [s \in Conflicts(f, seen) |-> decision[s]]
  <2>1. Blocked(f, seen) = {}
    BY <1>7 DEF PushPlan, f
  <2>0. choice \in [Conflicts(f, seen) -> Choices \ {"undecided"}]
    <3>1. Conflicts(f, seen) \subseteq Slots
      BY DEF Conflicts, Prior, Considered, Recorded
    <3>2. \A s \in Conflicts(f, seen) : decision[s] # "undecided"
      BY <1>7 DEF PushPlan, f
    <3>3. decision \in [Slots -> Choices \union {"undecided"}]
      BY DEF Inv, TypeOK
    <3> QED
      BY <3>1, <3>2, <3>3
  <2>2. PICK merged \in IF "merge" \in Choices THEN Values ELSE {NoPush},
             last \in SUBSET Conflicts(f, seen) :
          LET sent == Outbound(f, seen, choice, merged)
              send == {c \in Classes : \E s \in SlotsOf(c) : sent[s] # NoPush}
          IN  /\ outbound' = sent /\ todo' = send
              /\ work' = Planned(f, seen, sent, last)
              /\ pc' = IF send = {} THEN "write" ELSE "mutate"
              /\ buffer' = Reverted(f)
              /\ unseen' = unseen \ {s \in DOMAIN choice :
                   platform[cid][s] = IF s \in last THEN seen[s] ELSE live[s]}
              /\ decision' = [s \in Slots |->
                   IF s \in DOMAIN choice THEN choice[s] ELSE "undecided"]
              /\ late' = IF fetched THEN {} ELSE Slots
              /\ live' = AllAbsent /\ UNCHANGED <<cid, at>>
    BY <1>7 DEF PushPlan, f
  <2> DEFINE sent == Outbound(f, seen, choice, merged)
             send == {c \in Classes : \E s \in SlotsOf(c) : sent[s] # NoPush}
             gone == {c \in f.pendingEdit : \A s \in SlotsOf(c) : sent[s] = NoPush}
  <2>3. DOMAIN choice = Conflicts(f, seen)
    OBVIOUS
  <2>4. Conflicts(f, seen) \subseteq Prior(f)
    BY DEF Conflicts
  <2>5. \A s \in Considered(f) : /\ s \in Slots /\ s[1] \in f.pendingEdit /\ s[1] \notin Reverted(f)
                                 /\ f.previous[s] # NotRecorded /\ f.attributes[s] \in Values
    BY <1>2 DEF Considered, Recorded, FileOK
  <2>6. Prior(f) \subseteq Considered(f) /\ \A s \in Prior(f) : seen[s] \in Values
    BY <1>5, <2>1, <2>5 DEF Prior, Blocked, Attrs
  <2>7. \A s \in Slots :
          /\ sent[s] \in Values \union {NoPush}
          /\ sent[s] # NoPush => s \in Considered(f) \ Applied(f, seen)
    <3>1. SUFFICES ASSUME NEW s \in Slots
                   PROVE  /\ sent[s] \in Values \union {NoPush}
                          /\ sent[s] # NoPush => s \in Considered(f) \ Applied(f, seen)
      OBVIOUS
    <3>2. sent[s] = IF s \notin Considered(f) \ (Applied(f, seen) \union Taken(choice)) THEN NoPush
                    ELSE IF s \in DOMAIN choice /\ choice[s] = "merge" THEN merged
                    ELSE f.attributes[s]
      BY DEF Outbound
    <3>3. merged \in Values \union {NoPush}
      OBVIOUS
    <3> HIDE DEF sent, seen
    <3> QED
      BY <2>5, <3>2, <3>3
  <2>8. sent \in [Slots -> Values \union {NoPush}]
    <3>1. sent = [s \in Slots |-> sent[s]]
      BY DEF Outbound
    <3> QED
      BY <2>7, <3>1
  <2>9. send \subseteq f.pendingEdit
    BY <2>5, <2>7 DEF SlotsOf
  <2>10. Reverted(f) \subseteq gone
    BY <2>5, <2>7 DEF Reverted, SlotsOf
  <2>11. last \in SUBSET Slots /\ \A s \in last : seen[s] \in Values /\ s[1] \in f.pendingEdit
    BY <2>4, <2>5, <2>6
  <2> HIDE DEF seen, sent
  <2>12. /\ work' \in ControlFile /\ FileOK(work') /\ work'.id = cid
         /\ work'.lifecycle = f.lifecycle /\ work'.pendingEdit = f.pendingEdit \ gone
    <3> DEFINE g == Planned(f, seen, sent, last)
    <3>1. /\ g \in ControlFile /\ FileOK(g) /\ g.id = f.id /\ g.lifecycle = f.lifecycle
          /\ g.pendingEdit = f.pendingEdit \ gone
      BY <1>2, <1>5, <2>11, PlannedFile
    <3>2. work' = g
      BY <2>2 DEF sent
    <3> HIDE DEF g
    <3> QED
      BY <1>2, <3>1, <3>2 DEF FileOK
  <2>13. /\ outbound' = sent /\ todo' = send /\ buffer' = Reverted(f) /\ pc' \in {"mutate", "write"}
         /\ unseen' \subseteq unseen
         /\ decision' = [s \in Slots |->
              IF s \in DOMAIN choice THEN choice[s] ELSE "undecided"]
         /\ late' = (IF fetched THEN {} ELSE Slots) /\ live' = AllAbsent /\ cid' = cid /\ at' = at
    BY <2>2 DEF sent
  <2>14. ASSUME NEW s \in unseen' \ late', outbound'[s] # NoPush, decision'[s] = "undecided",
                f.previous[s] \in Values, cid \in exists
         PROVE  platform[cid][s] = f.previous[s]
    <3>1. s \in Slots /\ fetched
      BY <1>4, <2>13, <2>14
    <3>2. seen = platform[cid]
      BY <2>14, <3>1 DEF seen, Seen
    <3>3. s \in Considered(f) \ Applied(f, seen)
      BY <2>7, <2>13, <2>14, <3>1
    <3>4. s \in Prior(f) /\ s \notin Conflicts(f, seen)
      <4>1. s \in Prior(f)
        BY <2>14, <3>3, Bounds DEF Prior
      <4>2. s \in DOMAIN choice => choice[s] # "undecided"
        BY <2>0
      <4>3. decision'[s] = IF s \in DOMAIN choice THEN choice[s] ELSE "undecided"
        BY <2>13, <3>1
      <4> QED
        BY <2>3, <2>14, <4>1, <4>2, <4>3
    <3> QED
      BY <3>2, <3>3, <3>4 DEF Conflicts
  <2>15. decision' \in [Slots -> Choices \union {"undecided"}]
    BY <2>0, <2>3, <2>13
  <2>16. /\ todo' \subseteq f.pendingEdit /\ buffer' \subseteq f.pendingEdit \ work'.pendingEdit
         /\ late' \subseteq Slots
    BY <2>9, <2>10, <2>12, <2>13
  <2>17. PlanMade
    BY <1>1, <1>2, <2>8, <2>12, <2>13, <2>14, <2>15, <2>16 DEF PlanMade, f
  <2> QED
    BY <2>17
<1> QED
  BY <1>6, <1>7

\* An edit of the file by setLocalEdited or promoteExternalEdit.
EditMade(i, c) ==
  LET f == control[i]
  IN  /\ f \in ControlFile /\ FileOK(f) /\ (i # 0 => f.id = i)
      /\ \E g \in ControlFile :
           /\ Save(g) /\ FileOK(g) /\ g.id = f.id /\ g.lifecycle = f.lifecycle
           /\ g.pendingEdit = f.pendingEdit \union {c} /\ g.pushed = f.pushed \ {c}
           /\ g.snapshot = f.snapshot /\ g.platformAttributes = f.platformAttributes
           /\ \A t \in Slots :
                g.attributes[t] = f.attributes[t]
                \/ (t[1] = c /\ g.attributes[t] \in Values /\ edits' = edits + 1)
           /\ \A t \in Slots :
                \/ g.previous[t] = f.previous[t]
                \/ g.previous[t] \in {FirstWrite, f.attributes[t]} /\ edits' = edits + 1
                \/ /\ g.previous[t] = f.platformAttributes[t] /\ t[1] = c
                   /\ c \in f.snapshot \ f.pendingEdit
                   /\ f.attributes[t] # f.platformAttributes[t]

LEMMA SetLocalEditedEffect ==
  ASSUME Inv, NEW i \in Ids, NEW s \in Slots, NEW v \in Values, SetLocalEdited(i, s, v)
  PROVE  EditMade(i, s[1])
<1> DEFINE f == control[i]
           prev == [f.previous EXCEPT ![s] = Baseline(f, s)]
           attrs == [f.attributes EXCEPT ![s] = v]
           g == [Edited(f, s[1], prev) EXCEPT !.attributes = attrs]
<1>1. f \in ControlFile /\ FileOK(f) /\ (i # 0 => f.id = i) /\ s[1] \in Classes
  BY FileFacts, SlotClass DEF Inv, FilesInv, SetLocalEdited
<1>2. f.attributes \in Attrs /\ f.previous \in [Slots -> Values \union {NotRecorded, FirstWrite}]
  BY <1>1 DEF ControlFile
<1>3. Baseline(f, s) \in Values \union {FirstWrite}
  BY <1>2 DEF Baseline, Attrs
<1>4. /\ prev \in [Slots -> Values \union {NotRecorded, FirstWrite}] /\ attrs \in Attrs
  BY <1>2, <1>3 DEF Attrs
<1>5. \A t \in Slots : prev[t] # NotRecorded => (t[1] = s[1] \/ prev[t] = f.previous[t])
                                                /\ attrs[t] \in Values
  BY <1>1, <1>2, <1>3 DEF FileOK, Attrs
<1>6. Save(g)
  <2>1. Edited(f, s[1], prev).attributes = f.attributes
    BY <1>1 DEF Edited, ControlFile
  <2>2. Save([Edited(f, s[1], prev) EXCEPT !.attributes[s] = v])
    BY DEF SetLocalEdited
  <2>3. [Edited(f, s[1], prev) EXCEPT !.attributes[s] = v] =
          [Edited(f, s[1], prev) EXCEPT !.attributes = attrs]
    <3> HIDE DEF prev
    <3> QED
      BY <2>1
  <2> QED
    BY <2>2, <2>3
<1> HIDE DEF prev, attrs
<1>7. /\ g \in ControlFile /\ FileOK(g) /\ g.id = f.id /\ g.lifecycle = f.lifecycle
      /\ g.platformAttributes = f.platformAttributes
      /\ g.snapshot = f.snapshot /\ g.pendingEdit = f.pendingEdit \union {s[1]}
      /\ g.pushed = f.pushed \ {s[1]} /\ g.attributes = attrs /\ g.previous = prev
  BY <1>1, <1>4, <1>5, EditedFile
<1>8. \A t \in Slots : attrs[t] = f.attributes[t] \/ (t[1] = s[1] /\ attrs[t] \in Values)
  BY <1>2 DEF Attrs, attrs
<1>9. \A t \in Slots : prev[t] = f.previous[t] \/ prev[t] \in {FirstWrite, f.attributes[t]}
  BY <1>2 DEF prev, Baseline
<1>10. edits' = edits + 1
  BY DEF SetLocalEdited
<1> HIDE DEF g
<1>11. \A t \in Slots :
         g.attributes[t] = f.attributes[t]
         \/ (t[1] = s[1] /\ g.attributes[t] \in Values /\ edits' = edits + 1)
  BY <1>7, <1>8, <1>10
<1>12. \A t \in Slots :
         \/ g.previous[t] = f.previous[t]
         \/ g.previous[t] \in {FirstWrite, f.attributes[t]} /\ edits' = edits + 1
  BY <1>7, <1>9, <1>10
<1> QED
  BY <1>1, <1>6, <1>7, <1>11, <1>12 DEF EditMade

LEMMA PromoteEffect ==
  ASSUME Inv, NEW i \in Ids, NEW c \in Classes, Promote(i, c)
  PROVE  EditMade(i, c)
<1> DEFINE f == control[i]
           known == IF c \in f.snapshot THEN f.platformAttributes ELSE AllAbsent
           diverging == {s \in SlotsOf(c) : f.attributes[s] \notin {Absent, known[s]}}
           prev == [s \in Slots |-> IF s \in diverging /\ known[s] # Absent
                                    THEN known[s] ELSE f.previous[s]]
           g == [Edited(f, c, prev) EXCEPT !.attributes = f.attributes]
<1>1. f \in ControlFile /\ FileOK(f) /\ (i # 0 => f.id = i)
  BY FileFacts DEF Inv, FilesInv, Promote
<1>2. /\ f.attributes \in Attrs /\ f.platformAttributes \in Attrs
      /\ f.previous \in [Slots -> Values \union {NotRecorded, FirstWrite}]
  BY <1>1 DEF ControlFile
<1>3. known \in Attrs
  BY <1>2, Bounds
<1>4. \A s \in diverging : s \in Slots /\ s[1] = c /\ f.attributes[s] \in Values
  BY <1>2 DEF Attrs, SlotsOf
<1> HIDE DEF known, diverging
<1>5. prev \in [Slots -> Values \union {NotRecorded, FirstWrite}]
  BY <1>2, <1>3 DEF Attrs
<1>6. \A s \in Slots : prev[s] # NotRecorded => (s[1] = c \/ prev[s] = f.previous[s])
                                                /\ f.attributes[s] \in Values
  BY <1>1, <1>4 DEF FileOK
<1>7. Save(g)
  <2>1. Save(Edited(f, c, prev))
    BY DEF Promote, known, diverging
  <2>2. Edited(f, c, prev) = g
    <3> HIDE DEF prev
    <3> QED
      BY <1>1 DEF Edited, ControlFile
  <2> QED
    BY <2>1, <2>2
<1> HIDE DEF prev
<1>8. /\ g \in ControlFile /\ FileOK(g) /\ g.id = f.id /\ g.lifecycle = f.lifecycle
      /\ g.platformAttributes = f.platformAttributes
      /\ g.snapshot = f.snapshot /\ g.pendingEdit = f.pendingEdit \union {c}
      /\ g.pushed = f.pushed \ {c} /\ g.attributes = f.attributes /\ g.previous = prev
  BY <1>1, <1>2, <1>5, <1>6, EditedFile
<1> HIDE DEF g
<1>9. \A t \in Slots : g.attributes[t] = f.attributes[t]
  BY <1>8
<1>10. ASSUME NEW t \in Slots, prev[t] # f.previous[t]
       PROVE  /\ prev[t] = f.platformAttributes[t] /\ t[1] = c
              /\ c \in f.snapshot \ f.pendingEdit /\ f.attributes[t] # f.platformAttributes[t]
  <2>1. t \in diverging /\ known[t] # Absent /\ prev[t] = known[t]
    BY <1>10 DEF prev
  <2>2. c \in f.snapshot /\ known = f.platformAttributes
    BY <2>1 DEF known, AllAbsent
  <2> QED
    BY <1>4, <2>1, <2>2 DEF diverging, Promote
<1> QED
  BY <1>1, <1>7, <1>8, <1>9, <1>10 DEF EditMade

\* Someone edits an attribute of the file in an editor.
LEMMA HandEditEffect ==
  ASSUME Inv, NEW i \in Ids, NEW s \in Slots, NEW v \in Values, HandEdit(i, s, v)
  PROVE  LET f == control[i]
         IN  /\ i # 0 /\ i \in FileIds /\ f \in ControlFile /\ f.id = i
             /\ \E g \in ControlFile :
                  /\ control' = [control EXCEPT ![i] = g] /\ FileOK(g)
                  /\ g.id = i /\ g.lifecycle = "brownfield" /\ f.lifecycle = "brownfield"
                  /\ g.pendingEdit = f.pendingEdit /\ g.pushed = f.pushed
                  /\ g.snapshot = f.snapshot /\ g.platformAttributes = f.platformAttributes
                  /\ g.previous = f.previous /\ s[1] \notin f.pendingEdit
                  /\ \A t \in Slots : t # s => g.attributes[t] = f.attributes[t]
<1> DEFINE f == control[i]
           attrs == [f.attributes EXCEPT ![s] = v]
           g == [f EXCEPT !.attributes = attrs]
<1>1. /\ i \in FileIds /\ f \in ControlFile /\ FileOK(f) /\ f.lifecycle = "brownfield"
      /\ i # 0 /\ f.id = i /\ s[1] \notin f.pendingEdit
  BY FileFacts DEF Inv, FilesInv, HandEdit
<1>2. f.attributes \in Attrs
  BY <1>1 DEF ControlFile
<1>3. /\ attrs \in Attrs
      /\ \A t \in Slots : (attrs[t] = f.attributes[t] \/ attrs[t] \in Values)
                          /\ (t # s => attrs[t] = f.attributes[t])
  BY <1>2 DEF Attrs
<1>4. control' = [control EXCEPT ![i] = g]
  BY DEF HandEdit
<1> HIDE DEF attrs
<1>5. /\ g \in ControlFile /\ g.id = f.id /\ g.lifecycle = f.lifecycle
      /\ g.pendingEdit = f.pendingEdit /\ g.previous = f.previous /\ g.attributes = attrs
      /\ g.pushed = f.pushed /\ g.snapshot = f.snapshot
      /\ g.platformAttributes = f.platformAttributes
  BY <1>1, <1>3 DEF ControlFile
<1>6. FileOK(g)
  BY <1>1, <1>3, <1>5 DEF FileOK
<1> HIDE DEF g
<1>7. \A t \in Slots : t # s => g.attributes[t] = f.attributes[t]
  BY <1>3, <1>5
<1> QED
  BY <1>1, <1>4, <1>5, <1>6, <1>7

-----------------------------------------------------------------------------
(* Types, and what a call relies on *)

LEMMA SameFiles ==
  ASSUME control' = control
  PROVE  FileIds' = FileIds /\ (FilesInv => FilesInv')
BY DEF FileIds, FilesInv

LEMMA InitInv == Init => Inv
<1> SUFFICES ASSUME Init PROVE Inv
  OBVIOUS
<1>1. NewControl \in ControlFile /\ FileOK(NewControl) /\ NewControl # NoFile
  BY NewFile, FileAssumption
<1>2. control[0] = NewControl /\ FileIds = {0}
  BY <1>1, Bounds DEF Init, FileIds
<1>3. TypeOK
  <2>1. control \in [Ids -> ControlFile \union {NoFile}]
    BY <1>1 DEF Init
  <2>2. /\ refs \in [{Docs[k] : k \in DOMAIN Docs} -> Ids] /\ platform \in [Ids -> Attrs]
        /\ outbound \in [Slots -> Values \union {NoPush}] /\ live \in Attrs
        /\ entries \in [Classes -> Nat] /\ decision \in [Slots -> Choices \union {"undecided"}]
    BY Bounds DEF Init, Nothing, NoDecision
  <2>3. /\ pc \in Steps /\ cid \in Ids /\ journal \in Ids /\ created \in Ids
        /\ at \in 0..(Len(Docs) + 3)
        /\ faults \in 0..MaxFaults /\ foreign \in 0..MaxForeign /\ edits \in 0..MaxEdits
        /\ strays \in 0..MaxFaults
    BY Bounds DEF Init, Steps
  <2>5. cleared \in BOOLEAN
    BY DEF Init
  <2>4. /\ exists \subseteq Ids /\ edges \subseteq exists /\ todo \subseteq Classes
        /\ buffer \subseteq Classes /\ work \in ControlFile \union {NoFile}
        /\ owed \subseteq Classes /\ unseen \subseteq Slots /\ late \subseteq Slots
    BY DEF Init
  <2> QED
    BY <2>1, <2>2, <2>3, <2>4, <2>5 DEF TypeOK
<1>4. FilesInv
  BY <1>1, <1>2 DEF FilesInv, NewControl
<1>5. ReplayInv /\ CallInv
  BY DEF Init, ReplayInv, CallInv
<1> QED
  BY <1>3, <1>4, <1>5 DEF Inv

\* A call that ends, with the directory in order.
LEMMA ReturnInv ==
  ASSUME Inv, Return, FilesInv', strays' <= faults',
         journal' # 0 => (0 \in FileIds' => control'[0].lifecycle = "greenfield")
  PROVE  ReplayInv' /\ CallInv'
BY DEF Return, ReplayInv, CallInv

LEMMA ReplayKeepsInv == ASSUME Inv, Replay PROVE Inv'
<1> USE Bounds
<1>1. CASE BeginReplay
  <2>1. control' = control /\ FileIds' = FileIds /\ FilesInv'
    BY <1>1, SameFiles DEF BeginReplay, disk, Inv
  <2>2. TypeOK'
    BY <1>1 DEF BeginReplay, disk, server, counts, history, Inv, TypeOK, Steps
  <2>3. ReplayInv'
    BY <1>1, <2>1 DEF BeginReplay, Idle, disk, Inv, ReplayInv, CallInv
  <2>4. CallInv'
    BY <1>1, <2>1 DEF BeginReplay, Idle, disk, server, counts, history, Inv, CallInv, HasFile, HasWork
  <2> QED
    BY <2>1, <2>2, <2>3, <2>4 DEF Inv
<1>2. CASE RewriteDoc
  <2>1. control' = control /\ FileIds' = FileIds /\ FilesInv'
    BY <1>2, SameFiles DEF RewriteDoc, Inv
  <2>2. TypeOK'
    BY <1>2 DEF RewriteDoc, server, counts, history, Inv, TypeOK
  <2>3. ReplayInv'
    BY <1>2, <2>1 DEF RewriteDoc, Inv, ReplayInv
  <2>4. CallInv'
    BY <1>2, <2>1 DEF RewriteDoc, server, counts, history, Inv, CallInv
  <2> QED
    BY <2>1, <2>2, <2>3, <2>4 DEF Inv
<1>3. CASE RewriteControl
  <2>1. /\ control' \in [Ids -> ControlFile \union {NoFile}] /\ FileIds' = FileIds
        /\ \A i \in Ids \ {0} : control'[i] = control[i]
        /\ 0 \in FileIds => /\ FileOK(control'[0]) /\ control'[0].id = journal
                            /\ control'[0].lifecycle = control[0].lifecycle
    BY <1>3, RewriteControlEffect
  <2>2. TypeOK'
    <3>1. at' \in 0..(Len(Docs) + 3)
      BY <1>3 DEF RewriteControl
    <3> QED
      BY <1>3, <2>1, <3>1 DEF RewriteControl, server, counts, history, Inv, TypeOK
  <2>3. /\ journal # 0 /\ cid \in {0, journal} /\ (cid # 0 => 0 \in FileIds)
        /\ 0 \in FileIds => control[0].lifecycle = "greenfield"
    BY <1>3 DEF RewriteControl, Inv, ReplayInv, CallInv
  <2>4. FilesInv'
    BY <2>1, <2>3 DEF Inv, FilesInv, FileIds
  <2>5. ReplayInv'
    BY <1>3, <2>1, <2>3 DEF RewriteControl, ReplayInv
  <2>6. CallInv'
    BY <1>3, <2>1, <2>3 DEF RewriteControl, server, counts, history, Inv, CallInv
  <2> QED
    BY <2>2, <2>4, <2>5, <2>6 DEF Inv
<1>4. CASE Rename
  <2>1. /\ control' \in [Ids -> ControlFile \union {NoFile}] /\ journal # 0 /\ journal \in Ids
        /\ 0 \notin FileIds => control' = control /\ FileIds' = FileIds
        /\ 0 \in FileIds => /\ control'[journal] = control[0] /\ control[0].id = journal
                            /\ journal \notin FileIds
                            /\ control'[0] = NoFile
                            /\ FileIds' = (FileIds \ {0}) \union {journal}
        /\ \A i \in Ids \ {0, journal} : control'[i] = control[i]
    BY <1>4, RenameEffect
  <2>2. TypeOK'
    BY <1>4, <2>1 DEF Rename, server, counts, history, Inv, TypeOK
  <2>3. /\ cid \in {0, journal} /\ (cid # 0 => 0 \in FileIds)
        /\ pc = "replay" /\ pc' = pc /\ cid' = cid /\ journal' = journal
        /\ at' = Len(Docs) + 3
    BY <1>4 DEF Rename, Inv, ReplayInv
  <2>4. FilesInv'
    <3>1. CASE 0 \notin FileIds
      BY <2>1, <3>1 DEF Inv, FilesInv
    <3>2. CASE 0 \in FileIds
      <4>1. \A i \in FileIds' : i # 0 /\ (i = journal \/ (i \in FileIds /\ control'[i] = control[i]))
        BY <2>1, <3>2 DEF FileIds
      <4> QED
        BY <2>1, <3>2, <4>1 DEF Inv, FilesInv
    <3> QED
      BY <3>1, <3>2
  <2>5. ReplayInv'
    BY <2>1, <2>3 DEF ReplayInv, HasFile
  <2>6. CallInv'
    <3>1. 0 \in FileIds' => 0 \in FileIds /\ control'[0] = control[0]
      BY <2>1
    <3> QED
      BY <1>4, <2>3, <3>1 DEF Rename, server, counts, history, Inv, CallInv
  <2> QED
    BY <2>2, <2>4, <2>5, <2>6 DEF Inv
<1>5. CASE UnlinkJournal
  <2>1. control' = control /\ FileIds' = FileIds /\ FilesInv'
    BY <1>5, SameFiles DEF UnlinkJournal, Inv
  <2>2. cid # 0 => HasFile /\ control[cid] \in ControlFile /\ FileOK(control[cid])
    <3>1. cid # 0 => HasFile
      BY <1>5 DEF UnlinkJournal, Inv, ReplayInv
    <3> QED
      BY <3>1, FileFacts DEF HasFile, Inv, FilesInv
  <2>3. TypeOK'
    BY <1>5, <2>2 DEF UnlinkJournal, server, counts, history, Inv, TypeOK, Steps
  <2>4. ReplayInv'
    BY <1>5 DEF UnlinkJournal, ReplayInv
  <2>5. CallInv'
    <3>1. CASE cid = 0
      BY <1>5, <2>1, <3>1 DEF UnlinkJournal, server, counts, history, Inv, CallInv
    <3>2. CASE cid # 0
      <4>1. work' = control[cid] /\ cid' = cid /\ pc' = "flip"
        BY <1>5, <3>2 DEF UnlinkJournal
      <4>2. HasWork'
        BY <2>2, <3>2, <4>1 DEF HasFile, HasWork, FileOK
      <4> QED
        BY <1>5, <4>1, <4>2 DEF UnlinkJournal, server, counts, history, Inv, CallInv
    <3> QED
      BY <3>1, <3>2
  <2> QED
    BY <2>1, <2>3, <2>4, <2>5 DEF Inv
<1> QED
  BY <1>1, <1>2, <1>3, <1>4, <1>5 DEF Replay

LEMMA ReturnTypes ==
  ASSUME Return
  PROVE  /\ pc' = "idle" /\ pc' \in Steps /\ cid' \in Ids /\ at' \in 0..(Len(Docs) + 3)
         /\ todo' \subseteq Classes /\ buffer' \subseteq Classes /\ live' \in Attrs
         /\ decision' \in [Slots -> Choices \union {"undecided"}]
         /\ work' \in ControlFile \union {NoFile} /\ outbound' \in [Slots -> Values \union {NoPush}]
<1>1. /\ Nothing \in [Slots -> Values \union {NoPush}]
      /\ NoDecision \in [Slots -> Choices \union {"undecided"}]
  BY DEF Nothing, NoDecision
<1> QED
  BY <1>1, Bounds DEF Return, Steps

\* pushGreenfieldControl.
LEMMA GreenfieldKeepsInv ==
  ASSUME Inv,
         \/ \E i \in Ids : StartGreenfield(i)
         \/ CreateControl \/ AppendOperation \/ FlipLifecycle
         \/ \E c \in Classes : SetAttributes(c)
         \/ RecordAttributes \/ AssignEdges \/ Finalise
  PROVE  Inv'
<1> USE Bounds
<1>1. ASSUME NEW i \in Ids, StartGreenfield(i) PROVE Inv'
  <2>1. /\ control' = control /\ FileIds' = FileIds /\ FilesInv'
    BY <1>1, SameFiles DEF StartGreenfield, disk, Inv
  <2>2. /\ i \in FileIds /\ control[i] \in ControlFile /\ FileOK(control[i]) /\ control[i].id \in Ids
        /\ (control[i].id = i \/ i = 0) /\ journal = 0 /\ journal' = 0 /\ strays' <= faults'
    BY <1>1, FileFacts DEF StartGreenfield, Ready, Inv, FilesInv, CallInv, ControlFile, disk, counts, history
  <2>3. TypeOK'
    <3>1. /\ pc' \in Steps /\ work' \in ControlFile \union {NoFile} /\ todo' \subseteq Classes
      BY <1>1, <2>2 DEF StartGreenfield, Steps, Inv, TypeOK, ToPush
    <3> QED
      BY <1>1, <2>2, <3>1 DEF StartGreenfield, disk, server, counts, history, Inv, TypeOK
  <2>4. ReplayInv'
    BY <1>1 DEF StartGreenfield, ReplayInv
  <2>5. CASE control[i].lifecycle = "greenfield" /\ control[i].id # 0
    <3>1. pc' = "flip" /\ work' = control[i] /\ cid' = control[i].id /\ journal' = 0
      BY <1>1, <2>5 DEF StartGreenfield, Resumes, disk, Ready
    <3>2. HasWork'
      BY <2>2, <2>5, <3>1 DEF HasWork, FileOK
    <3> QED
      BY <1>1, <2>1, <2>2, <2>3, <2>4, <3>1, <3>2 DEF Inv, CallInv
  <2>6. CASE control[i].lifecycle = "greenfield" /\ control[i].id = 0
    <3>1. pc' = "create" /\ cid' = 0 /\ journal' = 0 /\ i = 0
      BY <1>1, <2>2, <2>6 DEF StartGreenfield, Resumes, disk, Ready, Inv, FilesInv
    <3> QED
      BY <2>1, <2>2, <2>3, <2>4, <2>6, <3>1 DEF Inv, CallInv
  <2>7. CASE control[i].lifecycle = "partially-pushed"
    <3>1. pc' = "attributes" /\ cid' = control[i].id /\ journal' = 0 /\ i # 0 /\ control[i].id = i
      BY <1>1, <2>2, <2>7 DEF StartGreenfield, disk, Ready, Inv, FilesInv
    <3>2. HasFile'
      BY <2>1, <2>2, <3>1 DEF HasFile
    <3> QED
      BY <2>1, <2>2, <2>3, <2>4, <3>1, <3>2 DEF Inv, CallInv
  <2> QED
    BY <1>1, <2>5, <2>6, <2>7 DEF StartGreenfield
<1>2. CASE CreateControl
  <2>1. control' = control /\ FileIds' = FileIds /\ FilesInv'
    BY <1>2, SameFiles DEF CreateControl, disk, Inv
  <2>2. TypeOK'
    <3>1. created + 1 \in Ids
      BY <1>2 DEF CreateControl, Inv, TypeOK
    <3> QED
      BY <1>2, <3>1 DEF CreateControl, disk, counts, history, Inv, TypeOK, Steps
  <2>3. ReplayInv'
    BY <1>2 DEF CreateControl, ReplayInv
  <2>4. CallInv'
    BY <1>2, <2>1 DEF CreateControl, disk, counts, history, Inv, TypeOK, CallInv
  <2> QED
    BY <2>1, <2>2, <2>3, <2>4 DEF Inv
<1>3. CASE AppendOperation
  <2>1. control' = control /\ FileIds' = FileIds /\ FilesInv'
    BY <1>3, SameFiles DEF AppendOperation, Inv
  <2>2. TypeOK'
    <3>1. journal' \in Ids /\ pc' \in Steps /\ at' \in 0..(Len(Docs) + 3)
      BY <1>3, Bounds DEF AppendOperation, Inv, TypeOK, Steps
    <3> QED
      BY <1>3, <3>1 DEF AppendOperation, server, counts, history, Inv, TypeOK
  <2>3. ReplayInv'
    BY <1>3, <2>1 DEF AppendOperation, Inv, CallInv, ReplayInv
  <2>4. CallInv'
    BY <1>3, <2>1 DEF AppendOperation, server, counts, history, Inv, CallInv
  <2> QED
    BY <2>1, <2>2, <2>3, <2>4 DEF Inv
<1>4. CASE FlipLifecycle
  <2> DEFINE g == [work EXCEPT !.lifecycle = "partially-pushed"]
  <2>0. "partially-pushed" \in Lifecycles /\ cid \in Ids
    BY DEF Lifecycles, Inv, TypeOK
  <2>1. HasWork
    BY <1>4 DEF FlipLifecycle, Inv, CallInv
  <2>2. g \in ControlFile /\ FileOK(g) /\ g.id = cid /\ g.lifecycle = "partially-pushed" /\ cid # 0
    BY <2>0, <2>1, MovedFile DEF HasWork
  <2>3. Save(g)
    BY <1>4 DEF FlipLifecycle
  <2> HIDE DEF g
  <2>4. /\ control' \in [Ids -> ControlFile \union {NoFile}] /\ control'[cid] = g
        /\ FileIds' = FileIds \union {cid} /\ FilesInv'
    BY <2>2, <2>3, SavedFile, SavedFiles DEF Inv
  <2>5. TypeOK'
    <3>1. ToPush(work) \subseteq Classes
      BY DEF ToPush
    <3> QED
      BY <1>4, <2>4, <3>1 DEF FlipLifecycle, server, counts, history, Inv, TypeOK, Steps
  <2>6. ReplayInv'
    BY <1>4 DEF FlipLifecycle, ReplayInv
  <2>7. HasFile'
    BY <1>4, <2>2, <2>4 DEF FlipLifecycle, HasFile
  <2>8. CallInv'
    BY <1>4, <2>7 DEF FlipLifecycle, server, counts, history, Inv, CallInv
  <2> QED
    BY <2>4, <2>5, <2>6, <2>8 DEF Inv
<1>5. ASSUME NEW c \in Classes, SetAttributes(c) PROVE Inv'
  <2>1. control' = control /\ FileIds' = FileIds /\ FilesInv'
    BY <1>5, SameFiles DEF SetAttributes, disk, Inv
  <2>2. /\ HasFile /\ platform' \in [Ids -> Attrs] /\ unseen' \subseteq unseen
        /\ work' \in ControlFile /\ FileOK(work') /\ work'.id = cid
    BY <1>5, SetAttributesEffect
  <2>3. TypeOK'
    BY <1>5, <2>2 DEF SetAttributes, disk, counts, Inv, TypeOK, Steps
  <2>4. ReplayInv'
    BY <1>5 DEF SetAttributes, ReplayInv
  <2>5. HasFile' /\ HasWork'
    BY <1>5, <2>1, <2>2 DEF SetAttributes, HasFile, HasWork, FileOK
  <2>6. CallInv'
    BY <1>5, <2>5 DEF SetAttributes, disk, counts, Inv, CallInv
  <2> QED
    BY <2>1, <2>3, <2>4, <2>6 DEF Inv
<1>6. CASE RecordAttributes
  <2>1. HasWork /\ Save(work) /\ work \in ControlFile /\ FileOK(work) /\ work.id = cid /\ cid # 0
    BY <1>6 DEF RecordAttributes, Inv, CallInv, HasWork
  <2>2. /\ control' \in [Ids -> ControlFile \union {NoFile}] /\ control'[cid] = work
        /\ FileIds' = FileIds \union {cid} /\ FilesInv'
    BY <2>1, SavedFile, SavedFiles DEF Inv
  <2>3. TypeOK'
    BY <1>6, <2>2 DEF RecordAttributes, server, counts, history, Inv, TypeOK, Steps
  <2>4. ReplayInv'
    BY <1>6 DEF RecordAttributes, ReplayInv
  <2>5. HasFile'
    BY <1>6, <2>1, <2>2 DEF RecordAttributes, HasFile
  <2>6. CallInv'
    BY <1>6, <2>5 DEF RecordAttributes, server, counts, history, Inv, CallInv
  <2> QED
    BY <2>2, <2>3, <2>4, <2>6 DEF Inv
<1>7. CASE AssignEdges
  <2>1. control' = control /\ FileIds' = FileIds /\ FilesInv'
    BY <1>7, SameFiles DEF AssignEdges, disk, Inv
  <2>2. TypeOK'
    BY <1>7 DEF AssignEdges, disk, counts, history, Inv, TypeOK, Steps
  <2>3. ReplayInv' /\ CallInv'
    BY <1>7, <2>1 DEF AssignEdges, disk, counts, history, Inv, CallInv, ReplayInv, HasFile
  <2> QED
    BY <2>1, <2>2, <2>3 DEF Inv
<1>8. CASE Finalise
  <2> DEFINE g == [control[cid] EXCEPT !.lifecycle = "brownfield"]
  <2>0. "brownfield" \in Lifecycles /\ cid \in Ids
    BY DEF Lifecycles, Inv, TypeOK
  <2>1. HasFile /\ control[cid] \in ControlFile /\ FileOK(control[cid])
    BY <1>8, FileFacts DEF Finalise, Inv, CallInv, FilesInv, HasFile
  <2>2. g \in ControlFile /\ FileOK(g) /\ g.id = cid /\ cid # 0
    BY <2>0, <2>1, MovedFile DEF HasFile
  <2>3. control' = control \/ Save(g)
    BY <1>8 DEF Finalise
  <2> HIDE DEF g
  <2>4. control' \in [Ids -> ControlFile \union {NoFile}] /\ FilesInv'
    <3>1. CASE control' = control
      BY <3>1, SameFiles DEF Inv, TypeOK
    <3>2. CASE Save(g)
      BY <2>2, <3>2, SavedFile, SavedFiles DEF Inv
    <3> QED
      BY <2>3, <3>1, <3>2
  <2>5. TypeOK'
    BY <1>8, <2>4, ReturnTypes DEF Finalise, server, counts, history, Inv, TypeOK
  <2>6. journal' = 0 /\ Return /\ strays' <= faults'
    BY <1>8 DEF Finalise, Inv, CallInv, counts, history
  <2> QED
    BY <2>4, <2>5, <2>6, ReturnInv DEF Inv
<1> QED
  BY <1>1, <1>2, <1>3, <1>4, <1>5, <1>6, <1>7, <1>8

\* pushBrownfieldControl.
LEMMA BrownfieldKeepsInv ==
  ASSUME Inv,
         \/ \E i \in Ids : StartBrownfield(i)
         \/ \E fetched \in BOOLEAN : PushPlan(fetched)
         \/ \E c \in Classes : Mutate(c) \/ Flush(c)
         \/ WriteFile
  PROVE  Inv'
<1> USE Bounds
<1>1. ASSUME NEW i \in Ids, StartBrownfield(i) PROVE Inv'
  <2>1. control' = control /\ FileIds' = FileIds /\ FilesInv'
    BY <1>1, SameFiles DEF StartBrownfield, disk, Inv
  <2>2. TypeOK'
    BY <1>1 DEF StartBrownfield, disk, server, counts, history, Inv, TypeOK, Steps
  <2>3. ReplayInv'
    BY <1>1 DEF StartBrownfield, ReplayInv
  <2>4. i \in FileIds /\ i # 0 /\ control[i].id = i
    BY <1>1 DEF StartBrownfield, Inv, FilesInv
  <2>5. HasFile'
    BY <1>1, <2>1, <2>4 DEF StartBrownfield, HasFile
  <2>6. CallInv'
    BY <1>1, <2>5 DEF StartBrownfield, Ready, disk, server, counts, history, Inv, CallInv
  <2> QED
    BY <2>1, <2>2, <2>3, <2>6 DEF Inv
<1>2. ASSUME NEW fetched \in BOOLEAN, PushPlan(fetched) PROVE Inv'
  <2>1. control' = control /\ FileIds' = FileIds /\ FilesInv'
    BY <1>2, SameFiles DEF PushPlan, disk, Inv
  <2>2. /\ refs' = refs /\ journal' = journal /\ platform' = platform /\ exists' = exists
        /\ edges' = edges /\ created' = created /\ foreign' = foreign /\ edits' = edits
        /\ strays' = strays /\ cleared' = cleared /\ owed' = owed /\ entries' = entries
        /\ pc = "review" /\ journal = 0
    BY <1>2 DEF PushPlan, disk, server, Inv, CallInv
  <2>3. faults' \in 0..MaxFaults /\ faults <= faults' /\ strays' <= faults'
    BY <1>2, <2>2 DEF PushPlan, Inv, TypeOK, CallInv
  <2>4. CASE Return /\ UNCHANGED <<unseen, late>>
    <3>1. TypeOK'
      BY <2>1, <2>2, <2>3, <2>4, ReturnTypes DEF Inv, TypeOK
    <3> QED
      BY <2>1, <2>2, <2>3, <2>4, <3>1, ReturnInv DEF Inv
  <2>5. CASE PlanMade
    <3>1. /\ HasFile /\ cid' = cid /\ at' = at /\ live' = AllAbsent
          /\ decision' \in [Slots -> Choices \union {"undecided"}]
          /\ pc' \in {"mutate", "write"} /\ outbound' \in [Slots -> Values \union {NoPush}]
          /\ unseen' \subseteq unseen /\ late' \subseteq Slots
          /\ work' \in ControlFile /\ FileOK(work') /\ work'.id = cid
      BY <2>5 DEF PlanMade
    <3>2. todo' \subseteq Classes /\ buffer' \subseteq Classes
      <4>1. control[cid].pendingEdit \subseteq Classes
        BY <2>5 DEF PlanMade, ControlFile
      <4> QED
        BY <2>5, <4>1 DEF PlanMade
    <3>3. TypeOK'
      BY <2>1, <2>2, <2>3, <3>1, <3>2 DEF Inv, TypeOK, Steps
    <3>4. HasFile' /\ HasWork'
      BY <2>1, <3>1 DEF HasFile, HasWork, FileOK
    <3>5. ReplayInv' /\ CallInv'
      BY <2>2, <2>3, <3>1, <3>4 DEF ReplayInv, CallInv
    <3> QED
      BY <2>1, <3>3, <3>5 DEF Inv
  <2> QED
    BY <1>2, <2>4, <2>5, PushPlanEffect
<1>3. ASSUME NEW c \in Classes, Mutate(c) PROVE Inv'
  <2>1. control' = control /\ FileIds' = FileIds /\ FilesInv'
    BY <1>3, SameFiles DEF Mutate, disk, Inv
  <2>2. /\ HasFile /\ platform' \in [Ids -> Attrs]
        /\ work' \in ControlFile /\ FileOK(work') /\ work'.id = cid
    BY <1>3, MutateEffect
  <2>3. /\ buffer' \subseteq Classes /\ owed' \subseteq Classes /\ unseen' \subseteq Slots
        /\ pc' \in {"mutate", "write"} /\ todo' \subseteq Classes
    BY <1>3 DEF Mutate, Inv, TypeOK
  <2>4. TypeOK'
    BY <1>3, <2>2, <2>3 DEF Mutate, disk, counts, Inv, TypeOK, Steps
  <2>5. HasFile' /\ HasWork'
    BY <1>3, <2>1, <2>2 DEF Mutate, HasFile, HasWork, FileOK
  <2>6. ReplayInv' /\ CallInv'
    BY <1>3, <2>3, <2>5 DEF Mutate, disk, counts, Inv, CallInv, ReplayInv
  <2> QED
    BY <2>1, <2>4, <2>6 DEF Inv
<1>4. ASSUME NEW c \in Classes, Flush(c) PROVE Inv'
  <2>1. control' = control /\ FileIds' = FileIds /\ FilesInv' /\ journal' = journal /\ journal = 0
    BY <1>4, SameFiles DEF Flush, disk, Inv, CallInv
  <2>2. entries' \in [Classes -> Nat] /\ owed' \subseteq Classes
    BY <1>4 DEF Flush, Inv, TypeOK
  <2>3. strays' <= faults'
    BY <1>4 DEF Flush, counts, Inv, CallInv
  <2>4. CASE Return
    <3>1. TypeOK'
      BY <1>4, <2>2, <2>4, ReturnTypes DEF Flush, disk, server, counts, Inv, TypeOK
    <3> QED
      BY <2>1, <2>3, <2>4, <3>1, ReturnInv DEF Inv
  <2>5. CASE ~Return
    <3>1. buffer' = buffer \ {c} /\ UNCHANGED <<pc, cid, at, todo, live, decision, work, outbound>>
      BY <1>4, <2>5 DEF Flush
    <3>2. TypeOK'
      BY <1>4, <2>2, <3>1 DEF Flush, disk, server, counts, Inv, TypeOK
    <3>3. ReplayInv' /\ CallInv'
      BY <1>4, <2>1, <2>3, <3>1 DEF Flush, Inv, CallInv, ReplayInv
    <3> QED
      BY <2>1, <3>2, <3>3 DEF Inv
  <2> QED
    BY <2>4, <2>5
<1>5. CASE WriteFile
  <2>1. HasWork /\ Save(work) /\ work \in ControlFile /\ FileOK(work) /\ work.id = cid /\ cid # 0
    BY <1>5 DEF WriteFile, Inv, CallInv, HasWork
  <2>2. control' \in [Ids -> ControlFile \union {NoFile}] /\ FilesInv'
    BY <2>1, SavedFile, SavedFiles DEF Inv
  <2>3. journal' = journal /\ journal = 0 /\ strays' <= faults'
    BY <1>5 DEF WriteFile, Inv, CallInv, counts, history
  <2>4. CASE Return
    <3>1. TypeOK'
      BY <1>5, <2>2, <2>4, ReturnTypes DEF WriteFile, server, counts, history, Inv, TypeOK
    <3> QED
      BY <2>2, <2>3, <2>4, <3>1, ReturnInv DEF Inv
  <2>5. CASE ~Return
    <3>1. pc' = "flush" /\ UNCHANGED <<cid, at, todo, live, decision, work, outbound, buffer>>
      BY <1>5, <2>5 DEF WriteFile
    <3>2. TypeOK'
      BY <1>5, <2>2, <3>1 DEF WriteFile, server, counts, history, Inv, TypeOK, Steps
    <3>3. ReplayInv' /\ CallInv'
      BY <1>5, <2>3, <3>1 DEF CallInv, ReplayInv
    <3> QED
      BY <2>2, <3>2, <3>3 DEF Inv
  <2> QED
    BY <2>4, <2>5
<1> QED
  BY <1>1, <1>2, <1>3, <1>4, <1>5

\* Other calls of the tool, other operators and faults.
LEMMA OthersKeepInv ==
  ASSUME Inv,
         \/ ClearWal \/ PlatformRefuses \/ Fail
         \/ \E i \in Ids : \/ Pull(i) \/ Tombstone(i) \/ ForeignDelete(i)
                           \/ \E c \in Classes : Promote(i, c)
                           \/ \E s \in Slots, v \in Values :
                                SetLocalEdited(i, s, v) \/ HandEdit(i, s, v) \/ Foreign(i, s, v)
  PROVE  Inv'
<1> USE Bounds
<1>1. CASE ClearWal
  <2>1. control' = control /\ FileIds' = FileIds /\ FilesInv'
    BY <1>1, SameFiles DEF ClearWal, Inv
  <2>2. TypeOK'
    BY <1>1 DEF ClearWal, server, call, counts, Inv, TypeOK
  <2>3. ReplayInv' /\ CallInv'
    BY <1>1, <2>1 DEF ClearWal, Idle, call, counts, Inv, ReplayInv, CallInv
  <2> QED
    BY <2>1, <2>2, <2>3 DEF Inv
<1>2. CASE PlatformRefuses
  <2>1. control' = control /\ FileIds' = FileIds /\ FilesInv'
    BY <1>2, SameFiles DEF PlatformRefuses, disk, Inv
  <2>2. TypeOK'
    BY <1>2, ReturnTypes DEF PlatformRefuses, disk, server, counts, history, Inv, TypeOK
  <2>3. Return /\ journal' = 0 /\ strays' <= faults'
    BY <1>2 DEF PlatformRefuses, disk, counts, history, Inv, CallInv
  <2> QED
    BY <2>1, <2>2, <2>3, ReturnInv DEF Inv
<1>3. CASE Fail
  <2>1. control' = control /\ FileIds' = FileIds /\ FilesInv' /\ journal' = journal
    BY <1>3, SameFiles DEF Fail, disk, Inv
  <2>2. /\ faults' \in 0..MaxFaults /\ strays' \in 0..MaxFaults /\ strays' <= faults'
        /\ owed' \subseteq Classes
    <3>1. /\ faults \in 0..MaxFaults /\ strays \in 0..MaxFaults /\ strays <= faults
          /\ faults < MaxFaults /\ faults' = faults + 1 /\ strays' \in {strays, strays + 1}
      BY <1>3 DEF Fail, Inv, TypeOK, CallInv
    <3>2. owed' \subseteq Classes
      BY <1>3 DEF Fail, Inv, TypeOK
    <3> QED
      BY <3>1, <3>2, Bounds
  <2>3. TypeOK'
    BY <1>3, <2>2, ReturnTypes DEF Fail, disk, server, Inv, TypeOK
  <2>4. Return /\ (journal' # 0 => (0 \in FileIds' => control'[0].lifecycle = "greenfield"))
    BY <1>3, <2>1 DEF Fail, Inv, CallInv
  <2> QED
    BY <2>1, <2>2, <2>3, <2>4, ReturnInv DEF Inv
<1>4. ASSUME NEW i \in Ids, Pull(i) PROVE Inv'
  <2>1. control' = control /\ FileIds' = FileIds /\ FilesInv'
    BY <1>4, SameFiles DEF Pull, disk, Inv
  <2>2. /\ i \in FileIds /\ i # 0 /\ control[i] \in ControlFile /\ FileOK(control[i])
        /\ control[i].id = i /\ journal = 0 /\ pc = "idle"
    BY <1>4, FileFacts DEF Pull, Ready, Idle, Inv, FilesInv
  <2>3. work' \in ControlFile /\ FileOK(work') /\ work'.id = i
    <3>1. CASE i \in exists
      <4>1. platform[i] \in Attrs
        BY DEF Inv, TypeOK
      <4> DEFINE g == Pulled(control[i], platform[i])
      <4>2. g \in ControlFile /\ FileOK(g) /\ g.id = control[i].id
        BY <2>2, <4>1, PulledFile
      <4>3. work' = g
        BY <1>4, <3>1 DEF Pull
      <4> HIDE DEF g
      <4> QED
        BY <2>2, <4>2, <4>3 DEF FileOK
    <3>2. CASE i \notin exists
      <4>1. "tombstoned" \in Lifecycles
        BY DEF Lifecycles
      <4> DEFINE g == [control[i] EXCEPT !.lifecycle = "tombstoned"]
      <4>2. g \in ControlFile /\ FileOK(g) /\ g.id = control[i].id
        BY <2>2, <4>1, MovedFile
      <4>3. work' = g
        BY <1>4, <3>2 DEF Pull
      <4> HIDE DEF g
      <4> QED
        BY <2>2, <4>2, <4>3 DEF FileOK
    <3> QED
      BY <3>1, <3>2
  <2>4. TypeOK'
    <3>1. unseen' \subseteq Slots
      BY <1>4 DEF Pull, Inv, TypeOK
    <3> QED
      BY <1>4, <2>3, <3>1 DEF Pull, disk, server, counts, Inv, TypeOK, Steps
  <2>5. HasFile' /\ HasWork'
    BY <1>4, <2>1, <2>2, <2>3 DEF Pull, HasFile, HasWork, FileOK
  <2>6. ReplayInv' /\ CallInv'
    BY <1>4, <2>2, <2>5 DEF Pull, disk, counts, Inv, CallInv, ReplayInv
  <2> QED
    BY <2>1, <2>4, <2>6 DEF Inv
<1>5. ASSUME NEW i \in Ids, Tombstone(i) PROVE Inv'
  <2> DEFINE g == [control[i] EXCEPT !.lifecycle = "tombstoned"]
  <2>1. "tombstoned" \in Lifecycles /\ journal = 0 /\ pc = "idle" /\ journal' = 0
    BY <1>5 DEF Lifecycles, Tombstone, Ready, Idle
  <2>2. control[i] \in ControlFile /\ FileOK(control[i])
    BY <1>5, FileFacts DEF Tombstone, Inv, FilesInv
  <2>3. g \in ControlFile /\ FileOK(g) /\ g.lifecycle = "tombstoned"
    BY <2>1, <2>2, MovedFile
  <2>4. Save(g)
    BY <1>5 DEF Tombstone
  <2> HIDE DEF g
  <2>5. control' \in [Ids -> ControlFile \union {NoFile}] /\ FilesInv'
    BY <2>3, <2>4, SavedFile, SavedFiles DEF Inv
  <2>6. TypeOK'
    BY <1>5, <2>5 DEF Tombstone, server, call, counts, history, Inv, TypeOK
  <2>7. ReplayInv' /\ CallInv'
    BY <1>5, <2>1 DEF Tombstone, call, counts, history, Inv, CallInv, ReplayInv
  <2> QED
    BY <2>5, <2>6, <2>7 DEF Inv
<1>6. ASSUME NEW i \in Ids, ForeignDelete(i) PROVE Inv'
  <2>1. control' = control /\ FileIds' = FileIds /\ FilesInv'
    BY <1>6, SameFiles DEF ForeignDelete, disk, Inv
  <2>2. TypeOK'
    BY <1>6 DEF ForeignDelete, disk, call, history, Inv, TypeOK
  <2>3. ReplayInv' /\ CallInv'
    BY <1>6, <2>1 DEF ForeignDelete, disk, call, history, Inv, CallInv, ReplayInv, HasFile, HasWork
  <2> QED
    BY <2>1, <2>2, <2>3 DEF Inv
<1>7. ASSUME NEW i \in Ids, NEW c \in Classes, EditMade(i, c), Ready, i \in FileIds,
             UNCHANGED <<refs, journal, server, call, faults, foreign, strays, cleared, owed,
                         unseen, late>>,
             edits' \in 0..MaxEdits, NewIntent(control[i], c)
      PROVE  Inv'
  <2>1. PICK g \in ControlFile : Save(g) /\ FileOK(g) /\ g.id = control[i].id
                                 /\ g.lifecycle = control[i].lifecycle
    BY <1>7 DEF EditMade
  <2>2. g.id = 0 => g.lifecycle \in {"greenfield", "tombstoned"}
    BY <1>7, <2>1 DEF Inv, FilesInv
  <2>3. control' \in [Ids -> ControlFile \union {NoFile}] /\ FilesInv'
    BY <2>1, <2>2, SavedFile, SavedFiles DEF Inv
  <2>4. entries' \in [Classes -> Nat]
    BY <1>7 DEF NewIntent, Inv, TypeOK
  <2>5. TypeOK'
    BY <1>7, <2>3, <2>4 DEF server, call, Inv, TypeOK
  <2>6. ReplayInv' /\ CallInv'
    BY <1>7 DEF Ready, Idle, call, Inv, CallInv, ReplayInv
  <2> QED
    BY <2>3, <2>5, <2>6 DEF Inv
<1>8. ASSUME NEW i \in Ids, NEW c \in Classes, Promote(i, c) PROVE Inv'
  <2>1. edits' \in 0..MaxEdits
    BY <1>8 DEF Promote, counts, Inv, TypeOK
  <2>2. EditMade(i, c)
    BY <1>8, PromoteEffect
  <2>3. /\ Ready /\ i \in FileIds /\ NewIntent(control[i], c)
        /\ UNCHANGED <<refs, journal, server, call, faults, foreign, strays, cleared, owed,
                       unseen, late>>
    BY <1>8 DEF Promote, counts
  <2> QED
    BY <1>7, <2>1, <2>2, <2>3
<1>9. ASSUME NEW i \in Ids, NEW s \in Slots, NEW v \in Values, SetLocalEdited(i, s, v) PROVE Inv'
  <2>1. edits' \in 0..MaxEdits
    <3>1. edits \in 0..MaxEdits /\ edits < MaxEdits /\ edits' = edits + 1
      BY <1>9 DEF SetLocalEdited, Inv, TypeOK
    <3> QED
      BY <3>1, Bounds
  <2>2. EditMade(i, s[1]) /\ s[1] \in Classes
    BY <1>9, SetLocalEditedEffect, SlotClass
  <2>3. /\ Ready /\ i \in FileIds /\ NewIntent(control[i], s[1])
        /\ UNCHANGED <<refs, journal, server, call, faults, foreign, strays, cleared, owed,
                       unseen, late>>
    BY <1>9 DEF SetLocalEdited
  <2> QED
    BY <1>7, <2>1, <2>2, <2>3
<1>10. ASSUME NEW i \in Ids, NEW s \in Slots, NEW v \in Values, HandEdit(i, s, v) PROVE Inv'
  <2>1. PICK g \in ControlFile : /\ control' = [control EXCEPT ![i] = g] /\ FileOK(g)
                                 /\ g.id = i /\ g.lifecycle = "brownfield" /\ i # 0 /\ i \in FileIds
    BY <1>10, HandEditEffect
  <2>2. Save(g) /\ i # 0
    BY <2>1 DEF Save
  <2>3. control' \in [Ids -> ControlFile \union {NoFile}] /\ FilesInv'
    BY <2>1, <2>2, SavedFile, SavedFiles DEF Inv
  <2>4. TypeOK'
    <3>1. edits' \in 0..MaxEdits
      <4>1. edits \in 0..MaxEdits /\ edits < MaxEdits /\ edits' = edits + 1
        BY <1>10 DEF HandEdit, Inv, TypeOK
      <4> QED
        BY <4>1, Bounds
    <3>2. UNCHANGED <<refs, journal, server, call, faults, foreign, history>>
      BY <1>10 DEF HandEdit
    <3> QED
      BY <2>3, <3>1, <3>2 DEF server, call, history, Inv, TypeOK
  <2>5. ReplayInv' /\ CallInv'
    BY <1>10 DEF HandEdit, Ready, Idle, call, history, Inv, CallInv, ReplayInv
  <2> QED
    BY <2>3, <2>4, <2>5 DEF Inv
<1>11. ASSUME NEW i \in Ids, NEW s \in Slots, NEW v \in Values, Foreign(i, s, v) PROVE Inv'
  <2>1. control' = control /\ FileIds' = FileIds /\ FilesInv'
    BY <1>11, SameFiles DEF Foreign, disk, Inv
  <2>2. platform' \in [Ids -> Attrs]
    BY <1>11 DEF Foreign, Inv, TypeOK, Attrs
  <2>3. TypeOK'
    <3>1. foreign' \in 0..MaxForeign
      <4>1. foreign \in 0..MaxForeign /\ foreign < MaxForeign /\ foreign' = foreign + 1
        BY <1>11 DEF Foreign, Inv, TypeOK
      <4> QED
        BY <4>1, Bounds
    <3>2. unseen' \subseteq Slots /\ late' \subseteq Slots
      BY <1>11 DEF Foreign, Inv, TypeOK
    <3>3. UNCHANGED <<disk, exists, edges, created, call, faults, edits, strays, cleared, owed,
                      entries>>
      BY <1>11 DEF Foreign
    <3> QED
      BY <2>2, <3>1, <3>2, <3>3 DEF disk, call, Inv, TypeOK
  <2>4. ReplayInv' /\ CallInv'
    BY <1>11, <2>1 DEF Foreign, disk, call, Inv, CallInv, ReplayInv, HasFile, HasWork
  <2> QED
    BY <2>1, <2>3, <2>4 DEF Inv
<1> QED
  BY <1>1, <1>2, <1>3, <1>4, <1>5, <1>6, <1>8, <1>9, <1>10, <1>11

LEMMA Unmoved == ASSUME UNCHANGED vars PROVE Inv => Inv'
<1>1. control' = control /\ FileIds' = FileIds
  BY SameFiles DEF vars, disk
<1> QED
  BY <1>1 DEF vars, disk, server, call, counts, history, Inv, TypeOK, FilesInv, ReplayInv, CallInv,
     HasFile, HasWork

\* The type invariant with what a call relies on between two of its steps.
THEOREM TypesAndFiles == Spec => []Inv
<1>1. Inv /\ [Next]_vars => Inv'
  BY ReplayKeepsInv, GreenfieldKeepsInv, BrownfieldKeepsInv, OthersKeepInv, Unmoved DEF Next, CallStep
<1> QED
  BY <1>1, InitInv, PTL DEF Spec

\* The variables keep their types, in any number of calls, crashes and journals: no
\* step writes a file without an id or an attribute without a value.
THEOREM TypesHold == Spec => []TypeOK
BY TypesAndFiles, PTL DEF Inv

-----------------------------------------------------------------------------
(* One Control, one name *)

\* A deleted journal is not forgotten.
LEMMA ClearedStays == ASSUME [Next]_vars, ~cleared' PROVE ~cleared
<1>1. CASE Replay
  BY <1>1 DEF Replay, BeginReplay, RewriteDoc, RewriteControl, Rename, UnlinkJournal, history
<1>2. CASE CallStep
  <2>1. CASE CreateControl \/ AppendOperation \/ FlipLifecycle \/ RecordAttributes \/ AssignEdges
    BY <2>1 DEF CreateControl, AppendOperation, FlipLifecycle, RecordAttributes, AssignEdges, history
  <2>2. CASE Finalise \/ WriteFile \/ PlatformRefuses
    BY <2>2 DEF Finalise, WriteFile, PlatformRefuses, history
  <2>3. CASE \E c \in Classes : SetAttributes(c) \/ Mutate(c) \/ Flush(c)
    BY <2>3 DEF SetAttributes, Mutate, Flush
  <2>4. CASE \E fetched \in BOOLEAN : PushPlan(fetched)
    BY <2>4 DEF PushPlan
  <2> QED
    BY <1>2, <2>1, <2>2, <2>3, <2>4 DEF CallStep
<1>3. CASE ClearWal \/ Fail \/ UNCHANGED vars
  BY <1>3 DEF ClearWal, Fail, vars, history
<1>4. ASSUME NEW i \in Ids,
             \/ StartGreenfield(i) \/ StartBrownfield(i) \/ Pull(i) \/ Tombstone(i)
             \/ ForeignDelete(i)
             \/ \E c \in Classes : Promote(i, c)
      PROVE  ~cleared
  BY <1>4 DEF StartGreenfield, StartBrownfield, Pull, Tombstone, ForeignDelete, Promote, history
<1>5. ASSUME NEW i \in Ids, NEW s \in Slots, NEW v \in Values,
             SetLocalEdited(i, s, v) \/ HandEdit(i, s, v) \/ Foreign(i, s, v)
      PROVE  ~cleared
  BY <1>5 DEF SetLocalEdited, HandEdit, Foreign, history
<1> QED
  BY <1>1, <1>2, <1>3, <1>4, <1>5 DEF Next

\* Steps that touch neither names nor the number of Controls.
LEMMA NamesKept ==
  ASSUME NamesInv, FileIds' = FileIds, refs' = refs, journal' = journal, created' = created,
         strays' = strays,
         (0 \in FileIds /\ journal = 0) => control'[0].id = control[0].id,
         \/ pc' = pc /\ cid' = cid /\ at' = at
         \/ pc # "append" /\ pc' \notin {"flip", "replay"}
  PROVE  NamesInv'
BY DEF NamesInv, Rewriting

\* Writing the file of the directory.
LEMMA SaveKeepsNames ==
  ASSUME Inv, NEW f \in ControlFile, Save(f), f.id \in FileIds, f.id = 0 => control[0].id = 0
  PROVE  FileIds' = FileIds /\ (0 \in FileIds => control'[0].id = control[0].id)
<1>1. /\ f.id \in Ids /\ control'[f.id] = f /\ \A i \in Ids : i # f.id => control'[i] = control[i]
      /\ FileIds' = FileIds \union {f.id}
  BY SavedFile DEF Inv
<1> QED
  BY <1>1, Bounds

LEMMA ReplayKeepsNames == ASSUME Inv, NamesInv, Replay PROVE NamesInv'
<1> USE Bounds
<1>0. DOMAIN refs = {Docs[k] : k \in DOMAIN Docs} /\ DOMAIN Docs = 1..Len(Docs)
  BY DEF Inv, TypeOK
<1>1. CASE BeginReplay
  <2>1. /\ FileIds' = FileIds /\ refs' = refs /\ journal' = journal /\ journal # 0
        /\ created' = created /\ strays' = strays /\ pc = "idle" /\ pc' = "replay" /\ at' = 1
    BY <1>1, SameFiles DEF BeginReplay, Idle, disk, server, history
  <2>2. Rewriting'
    BY <1>0, <2>1 DEF NamesInv, Rewriting
  <2> QED
    BY <2>1, <2>2 DEF NamesInv
<1>2. CASE RewriteDoc
  <2>1. /\ FileIds' = FileIds /\ journal' = journal /\ journal # 0
        /\ refs' = [refs EXCEPT ![Docs[at]] = IF @ = 0 THEN journal ELSE @]
        /\ created' = created /\ strays' = strays /\ pc = "replay" /\ pc' = "replay" /\ at' = at + 1
        /\ at \in 1..Len(Docs)
    BY <1>2, SameFiles DEF RewriteDoc, server, history, Inv, ReplayInv
  <2>2. DOMAIN refs' = DOMAIN refs /\ \A d \in DOMAIN refs :
           refs'[d] = IF d = Docs[at] /\ refs[d] = 0 THEN journal ELSE refs[d]
    BY <2>1 DEF Inv, TypeOK
  <2>3. \A d \in DOMAIN refs : refs[d] \in {0, journal}
    BY <2>1 DEF NamesInv, Rewriting
  <2>4. \A k \in DOMAIN Docs : k < at' => refs'[Docs[k]] = journal
    <3> SUFFICES ASSUME NEW k \in DOMAIN Docs, k < at' PROVE refs'[Docs[k]] = journal
      OBVIOUS
    <3>1. k < at \/ k = at
      BY <1>0, <2>1
    <3> QED
      BY <1>0, <2>1, <2>2, <2>3, <3>1 DEF NamesInv, Rewriting
  <2>5. at' # Len(Docs) + 3
    BY <2>1
  <2>6. \/ FileIds = {0} /\ \A d \in DOMAIN refs' : refs'[d] \in {0, journal}
        \/ FileIds = {journal} /\ \A d \in DOMAIN refs' : refs'[d] = journal
    BY <2>1, <2>2, <2>3 DEF NamesInv, Rewriting
  <2>7. Rewriting'
    BY <2>1, <2>4, <2>5, <2>6 DEF Rewriting
  <2> QED
    BY <2>1, <2>7 DEF NamesInv
<1>3. CASE RewriteControl
  <2>1. /\ FileIds' = FileIds /\ refs' = refs /\ journal' = journal /\ journal # 0
        /\ created' = created /\ strays' = strays /\ pc = "replay" /\ pc' = "replay"
        /\ at = Len(Docs) + 1 /\ at' = at + 1
    BY <1>3, RewriteControlEffect DEF RewriteControl, server, history, Inv, ReplayInv
  <2>2. Rewriting'
    BY <1>0, <2>1 DEF NamesInv, Rewriting
  <2> QED
    BY <2>1, <2>2 DEF NamesInv
<1>4. CASE Rename
  <2>1. /\ refs' = refs /\ journal' = journal /\ journal # 0 /\ journal \in Ids
        /\ created' = created /\ strays' = strays /\ pc = "replay" /\ pc' = "replay"
        /\ at = Len(Docs) + 2 /\ at' = at + 1
        /\ 0 \notin FileIds => FileIds' = FileIds
        /\ 0 \in FileIds => FileIds' = (FileIds \ {0}) \union {journal}
    BY <1>4, RenameEffect DEF Rename, server, history, Inv, ReplayInv
  <2>2. \A d \in DOMAIN refs : refs[d] = journal
    BY <1>0, <2>1 DEF NamesInv, Rewriting
  <2>3. FileIds' = {journal}
    BY <2>1 DEF NamesInv, Rewriting
  <2>4. Rewriting'
    BY <1>0, <2>1, <2>2, <2>3 DEF Rewriting
  <2> QED
    BY <2>1, <2>4 DEF NamesInv
<1>5. CASE UnlinkJournal
  <2>1. /\ FileIds' = FileIds /\ refs' = refs /\ journal' = 0 /\ journal # 0 /\ journal \in Ids
        /\ created' = created /\ strays' = strays /\ pc = "replay" /\ pc' \in {"idle", "flip"}
        /\ at = Len(Docs) + 3 /\ cid' = cid /\ (pc' = "flip" => cid # 0) /\ cid \in {0, journal}
    BY <1>5, SameFiles DEF UnlinkJournal, server, history, Inv, ReplayInv, TypeOK
  <2>2. FileIds = {journal} /\ \A d \in DOMAIN refs : refs[d] = journal
    BY <2>1 DEF NamesInv, Rewriting
  <2> QED
    BY <2>1, <2>2 DEF NamesInv
<1> QED
  BY <1>1, <1>2, <1>3, <1>4, <1>5 DEF Replay

LEMMA CallsKeepNames ==
  ASSUME Inv, NamesInv, CallStep \/ \E i \in Ids : StartGreenfield(i)
  PROVE  NamesInv'
<1> USE Bounds
<1>1. ASSUME NEW i \in Ids, StartGreenfield(i) PROVE NamesInv'
  <2>1. /\ control' = control /\ FileIds' = FileIds /\ refs' = refs /\ journal' = journal /\ journal = 0
        /\ created' = created /\ strays' = strays /\ pc = "idle" /\ cid' = control[i].id
        /\ pc' \in {"flip", "create", "attributes"} /\ i \in FileIds
        /\ pc' = "flip" => control[i].id # 0
    BY <1>1, SameFiles DEF StartGreenfield, Resumes, Ready, Idle, disk, server, history
  <2>2. pc' = "flip" => cid' \in FileIds
    BY <2>1 DEF NamesInv, Inv, FilesInv
  <2> QED
    BY <2>1, <2>2 DEF NamesInv
<1>2. CASE CreateControl
  <2>1. /\ control' = control /\ FileIds' = FileIds /\ refs' = refs /\ journal' = journal /\ journal = 0
        /\ created' = created + 1 /\ strays' = strays /\ pc = "create" /\ pc' = "append"
        /\ 0 \in FileIds
    BY <1>2, SameFiles DEF CreateControl, disk, history, Inv, CallInv
  <2>2. created' <= 1 + strays'
    BY <2>1 DEF NamesInv, Inv, TypeOK
  <2> QED
    BY <2>1, <2>2 DEF NamesInv
<1>3. CASE AppendOperation
  <2>1. /\ FileIds' = FileIds /\ refs' = refs /\ journal' = cid /\ journal = 0 /\ cid # 0
        /\ created' = created /\ strays' = strays /\ pc' = "replay" /\ at' = 1 /\ 0 \in FileIds
    BY <1>3, SameFiles DEF AppendOperation, server, history, Inv, CallInv
  <2>2. FileIds = {0} /\ \A d \in DOMAIN refs : refs[d] = 0
    BY <2>1 DEF NamesInv
  <2>3. DOMAIN Docs = 1..Len(Docs)
    OBVIOUS
  <2>4. Rewriting'
    BY <2>1, <2>2, <2>3 DEF Rewriting
  <2> QED
    BY <2>1, <2>4 DEF NamesInv
<1>4. CASE FlipLifecycle
  <2> DEFINE g == [work EXCEPT !.lifecycle = "partially-pushed"]
  <2>0. "partially-pushed" \in Lifecycles /\ cid \in Ids
    BY DEF Lifecycles, Inv, TypeOK
  <2>1. HasWork /\ cid \in FileIds
    BY <1>4 DEF FlipLifecycle, Inv, CallInv, NamesInv
  <2>2. g \in ControlFile /\ g.id = cid /\ cid # 0
    BY <2>0, <2>1, MovedFile DEF HasWork
  <2>3. Save(g)
    BY <1>4 DEF FlipLifecycle
  <2> HIDE DEF g
  <2>4. FileIds' = FileIds /\ (0 \in FileIds => control'[0].id = control[0].id)
    BY <2>1, <2>2, <2>3, SaveKeepsNames
  <2> QED
    BY <1>4, <2>4, NamesKept DEF FlipLifecycle, server, history
<1>5. ASSUME NEW c \in Classes, SetAttributes(c) \/ Mutate(c) PROVE NamesInv'
  <2>1. control' = control /\ FileIds' = FileIds
    BY <1>5, SameFiles DEF SetAttributes, Mutate, disk
  <2> QED
    BY <1>5, <2>1, NamesKept DEF SetAttributes, Mutate, disk
<1>6. CASE RecordAttributes \/ WriteFile
  <2>1. HasWork /\ HasFile /\ Save(work)
    BY <1>6 DEF RecordAttributes, WriteFile, Inv, CallInv
  <2>2. FileIds' = FileIds /\ (0 \in FileIds => control'[0].id = control[0].id)
    BY <2>1, SaveKeepsNames DEF HasWork, HasFile
  <2> QED
    BY <1>6, <2>2, NamesKept DEF RecordAttributes, WriteFile, Return, server, history
<1>7. CASE AssignEdges \/ PlatformRefuses
  <2>1. control' = control /\ FileIds' = FileIds
    BY <1>7, SameFiles DEF AssignEdges, PlatformRefuses, disk
  <2> QED
    BY <1>7, <2>1, NamesKept DEF AssignEdges, PlatformRefuses, Return, disk, server, history
<1>8. CASE Finalise
  <2> DEFINE g == [control[cid] EXCEPT !.lifecycle = "brownfield"]
  <2>0. "brownfield" \in Lifecycles /\ cid \in Ids
    BY DEF Lifecycles, Inv, TypeOK
  <2>1. HasFile /\ control[cid] \in ControlFile /\ FileOK(control[cid])
    BY <1>8, FileFacts DEF Finalise, Inv, CallInv, FilesInv, HasFile
  <2>2. g \in ControlFile /\ g.id = cid /\ cid # 0
    BY <2>0, <2>1, MovedFile DEF HasFile
  <2>3. control' = control \/ Save(g)
    BY <1>8 DEF Finalise
  <2> HIDE DEF g
  <2>4. FileIds' = FileIds /\ (0 \in FileIds => control'[0].id = control[0].id)
    BY <2>1, <2>2, <2>3, SaveKeepsNames, SameFiles DEF HasFile
  <2> QED
    BY <1>8, <2>4, NamesKept DEF Finalise, Return, server, history
<1>9. ASSUME NEW fetched \in BOOLEAN, PushPlan(fetched) PROVE NamesInv'
  <2>1. /\ control' = control /\ FileIds' = FileIds /\ refs' = refs /\ journal' = journal
        /\ created' = created /\ strays' = strays /\ pc = "review"
    BY <1>9, SameFiles DEF PushPlan, disk, server
  <2>2. pc' \in {"idle", "mutate", "write"}
    BY <1>9, PushPlanEffect DEF Return, PlanMade
  <2> QED
    BY <2>1, <2>2, NamesKept
<1>10. ASSUME NEW c \in Classes, Flush(c) PROVE NamesInv'
  <2>1. control' = control /\ FileIds' = FileIds
    BY <1>10, SameFiles DEF Flush, disk
  <2> QED
    BY <1>10, <2>1, NamesKept DEF Flush, Return, disk, server
<1> QED
  BY <1>1, <1>2, <1>3, <1>4, <1>5, <1>6, <1>7, <1>8, <1>9, <1>10 DEF CallStep

LEMMA OthersKeepNames ==
  ASSUME Inv, NamesInv,
         \/ Fail
         \/ \E i \in Ids : \/ StartBrownfield(i) \/ Pull(i) \/ Tombstone(i) \/ ForeignDelete(i)
                           \/ \E c \in Classes : Promote(i, c)
                           \/ \E s \in Slots, v \in Values :
                                SetLocalEdited(i, s, v) \/ HandEdit(i, s, v) \/ Foreign(i, s, v)
         \/ UNCHANGED vars
  PROVE  NamesInv'
<1> USE Bounds
<1>1. CASE Fail
  <2>1. /\ control' = control /\ FileIds' = FileIds /\ refs' = refs /\ journal' = journal
        /\ created' = created /\ pc' = "idle"
        /\ strays' = IF pc = "append" THEN strays + 1 ELSE strays
    BY <1>1, SameFiles DEF Fail, Return, disk, server
  <2>2. CASE pc = "append"
    <3>1. created \in Nat /\ strays \in Nat /\ journal = 0 /\ control[0].id = 0
      BY <2>2 DEF Inv, TypeOK, CallInv
    <3> QED
      BY <2>1, <2>2, <3>1 DEF NamesInv
  <2>3. CASE pc # "append"
    BY <2>1, <2>3, NamesKept
  <2> QED
    BY <2>2, <2>3
<1>2. ASSUME NEW i \in Ids, StartBrownfield(i) \/ Pull(i) PROVE NamesInv'
  <2>1. control' = control /\ FileIds' = FileIds
    BY <1>2, SameFiles DEF StartBrownfield, Pull, disk
  <2> QED
    BY <1>2, <2>1, NamesKept DEF StartBrownfield, Pull, Ready, Idle, disk, server, history
<1>3. ASSUME NEW i \in Ids, NEW g \in ControlFile, Save(g), g.id = control[i].id, i \in FileIds,
             Ready, UNCHANGED <<refs, journal, server, call, strays>>
      PROVE  NamesInv'
  <2>1. g.id = i /\ control[i].id = i
    BY <1>3 DEF Ready, Idle, NamesInv, Inv, FilesInv
  <2>2. FileIds' = FileIds /\ (0 \in FileIds => control'[0].id = control[0].id)
    BY <1>3, <2>1, SaveKeepsNames
  <2> QED
    BY <1>3, <2>2, NamesKept DEF call, server
<1>4. ASSUME NEW i \in Ids, Tombstone(i) PROVE NamesInv'
  <2> DEFINE g == [control[i] EXCEPT !.lifecycle = "tombstoned"]
  <2>1. "tombstoned" \in Lifecycles
    BY DEF Lifecycles
  <2>2. control[i] \in ControlFile /\ FileOK(control[i])
    BY <1>4, FileFacts DEF Tombstone, Inv, FilesInv
  <2>3. g \in ControlFile /\ g.id = control[i].id
    BY <2>1, <2>2, MovedFile
  <2>4. Save(g)
    BY <1>4 DEF Tombstone
  <2> HIDE DEF g
  <2>5. Ready /\ i \in FileIds /\ UNCHANGED <<refs, journal, server, call, strays>>
    BY <1>4 DEF Tombstone, history
  <2> QED
    BY <1>3, <2>3, <2>4, <2>5
<1>5. ASSUME NEW i \in Ids, ForeignDelete(i) PROVE NamesInv'
  <2>1. control' = control /\ FileIds' = FileIds
    BY <1>5, SameFiles DEF ForeignDelete, disk
  <2> QED
    BY <1>5, <2>1, NamesKept DEF ForeignDelete, disk, call, history
<1>6. ASSUME NEW i \in Ids, NEW c \in Classes, Promote(i, c) PROVE NamesInv'
  <2>1. PICK g \in ControlFile : Save(g) /\ g.id = control[i].id
    BY <1>6, PromoteEffect DEF EditMade
  <2>2. Ready /\ i \in FileIds /\ UNCHANGED <<refs, journal, server, call, strays>>
    BY <1>6 DEF Promote
  <2> QED
    BY <1>3, <2>1, <2>2
<1>7. ASSUME NEW i \in Ids, NEW s \in Slots, NEW v \in Values, SetLocalEdited(i, s, v)
      PROVE  NamesInv'
  <2>1. PICK g \in ControlFile : Save(g) /\ g.id = control[i].id
    BY <1>7, SetLocalEditedEffect DEF EditMade
  <2>2. Ready /\ i \in FileIds /\ UNCHANGED <<refs, journal, server, call, strays>>
    BY <1>7 DEF SetLocalEdited
  <2> QED
    BY <1>3, <2>1, <2>2
<1>8. ASSUME NEW i \in Ids, NEW s \in Slots, NEW v \in Values, HandEdit(i, s, v)
      PROVE  NamesInv'
  <2>1. PICK g \in ControlFile : control' = [control EXCEPT ![i] = g] /\ g.id = i
                                 /\ control[i].id = i
    BY <1>8, HandEditEffect
  <2>2. Save(g)
    BY <2>1 DEF Save
  <2>3. Ready /\ i \in FileIds /\ UNCHANGED <<refs, journal, server, call, strays>>
    BY <1>8 DEF HandEdit, history
  <2> QED
    BY <1>3, <2>1, <2>2, <2>3
<1>9. ASSUME NEW i \in Ids, NEW s \in Slots, NEW v \in Values, Foreign(i, s, v)
      PROVE  NamesInv'
  <2>1. control' = control /\ FileIds' = FileIds
    BY <1>9, SameFiles DEF Foreign, disk
  <2> QED
    BY <1>9, <2>1, NamesKept DEF Foreign, disk, call
<1>10. CASE UNCHANGED vars
  <2>1. control' = control /\ FileIds' = FileIds
    BY <1>10, SameFiles DEF vars, disk
  <2> QED
    BY <1>10, <2>1, NamesKept DEF vars, disk, server, call, history
<1> QED
  BY <1>1, <1>2, <1>4, <1>5, <1>6, <1>7, <1>8, <1>9, <1>10

\* Unless a journal was deleted, one file, named by every document once no rewrite is
\* under way.
THEOREM NamesHold == Spec => []RefsInv
<1>1. Init => RefsInv
  <2> SUFFICES ASSUME Init PROVE NamesInv
    BY DEF RefsInv
  <2>1. NewControl # NoFile /\ NewControl.id = 0
    BY NewFile, FileAssumption DEF NewControl
  <2>2. control[0] = NewControl /\ FileIds = {0}
    BY <2>1, Bounds DEF Init, FileIds
  <2>3. /\ journal = 0 /\ created = 0 /\ strays = 0 /\ pc = "idle" /\ cid = 0 /\ at = 0
        /\ exists = {} /\ \A d \in DOMAIN refs : refs[d] = 0
    BY DEF Init
  <2> QED
    BY <2>1, <2>2, <2>3, Bounds DEF NamesInv
<1>2. Inv /\ RefsInv /\ [Next]_vars => RefsInv'
  <2> SUFFICES ASSUME Inv, RefsInv, [Next]_vars, ~cleared' PROVE NamesInv'
    BY DEF RefsInv
  <2>1. ~cleared /\ NamesInv
    BY ClearedStays DEF RefsInv
  <2>2. ~ClearWal
    BY DEF ClearWal
  <2> QED
    BY <2>1, <2>2, ReplayKeepsNames, CallsKeepNames, OthersKeepNames DEF Next
<1> QED
  BY <1>1, <1>2, TypesAndFiles, PTL DEF Spec

\* Between calls the documents and the directory name one Control, for any documents
\* and any crashes of applyGreenfieldRewrite and of its replays.
THEOREM RefsAgreeHolds == Spec => []RefsAgree
<1>1. Inv /\ RefsInv => RefsAgree
  BY DEF Inv, FilesInv, RefsInv, NamesInv, RefsAgree, Idle
<1> QED
  BY <1>1, TypesAndFiles, NamesHold, PTL

\* createControl is called once more only for a call that ended before its journal.
THEOREM OneControlPerPushHolds == Spec => []OneControlPerPush
<1>1. RefsInv => OneControlPerPush
  BY DEF RefsInv, NamesInv, OneControlPerPush
<1> QED
  BY <1>1, NamesHold, PTL

-----------------------------------------------------------------------------
(* Nothing is overwritten unseen *)

\* The steps after which a call is not about to send a class.
LEMMA NotMutating ==
  ASSUME Inv, [Next]_vars,
         ~\E fetched \in BOOLEAN : PushPlan(fetched),
         ~\E c \in Classes : Mutate(c),
         ~\E i \in Ids, s \in Slots, v \in Values : Foreign(i, s, v),
         ~\E i \in Ids : ForeignDelete(i)
  PROVE  pc' # "mutate" \/ UNCHANGED vars
<1>1. CASE Replay
  BY <1>1 DEF Replay, BeginReplay, RewriteDoc, RewriteControl, Rename, UnlinkJournal
<1>2. CASE CallStep
  <2>1. CASE CreateControl \/ AppendOperation \/ FlipLifecycle \/ RecordAttributes \/ AssignEdges
    BY <2>1 DEF CreateControl, AppendOperation, FlipLifecycle, RecordAttributes, AssignEdges
  <2>2. CASE Finalise \/ WriteFile \/ PlatformRefuses
    BY <2>2 DEF Finalise, WriteFile, PlatformRefuses, Return
  <2>3. CASE \E c \in Classes : SetAttributes(c) \/ Flush(c)
    BY <2>3 DEF SetAttributes, Flush, Return
  <2> QED
    BY <1>2, <2>1, <2>2, <2>3 DEF CallStep
<1>3. CASE ClearWal \/ Fail
  BY <1>3 DEF ClearWal, Fail, Return, Idle, call
<1>4. ASSUME NEW i \in Ids,
             \/ StartGreenfield(i) \/ StartBrownfield(i) \/ Pull(i) \/ Tombstone(i)
             \/ \E c \in Classes : Promote(i, c)
      PROVE  pc' # "mutate"
  BY <1>4 DEF StartGreenfield, StartBrownfield, Pull, Tombstone, Promote, Ready, Idle, call
<1>5. ASSUME NEW i \in Ids, NEW s \in Slots, NEW v \in Values,
             SetLocalEdited(i, s, v) \/ HandEdit(i, s, v)
      PROVE  pc' # "mutate"
  BY <1>5 DEF SetLocalEdited, HandEdit, Ready, Idle, call
<1> QED
  BY <1>1, <1>2, <1>3, <1>4, <1>5 DEF Next

\* Step F overwrites what the edit began from, unless the operator was asked about the
\* attribute and answered, or another operator wrote it after Step B's read: for any
\* attributes, conflicts, answers and number of pushes.
THEOREM NoBlindOverwriteHolds == Spec => []NoBlindOverwrite
<1>1. Init => NoBlindOverwrite
  BY DEF Init, NoBlindOverwrite
<1>2. Inv /\ Inv' /\ NoBlindOverwrite /\ [Next]_vars => NoBlindOverwrite'
  <2> SUFFICES ASSUME Inv, Inv', NoBlindOverwrite, [Next]_vars, pc' = "mutate", cid' \in exists',
                      NEW s \in unseen' \ late', s[1] \in todo', outbound'[s] # NoPush,
                      decision'[s] = "undecided", control'[cid'].previous[s] \in Values
               PROVE  platform'[cid'][s] = control'[cid'].previous[s]
    BY DEF NoBlindOverwrite
  <2>1. /\ platform \in [Ids -> Attrs] /\ cid \in Ids /\ unseen \subseteq Slots
        /\ unseen' \subseteq Slots
    BY DEF Inv, TypeOK
  <2>2. ASSUME NEW fetched \in BOOLEAN, PushPlan(fetched)
        PROVE  platform'[cid'][s] = control'[cid'].previous[s]
    <3>1. PlanMade
      BY <2>2, PushPlanEffect DEF Return
    <3>2. platform' = platform /\ control' = control /\ exists' = exists
      BY <2>2 DEF PushPlan, disk, server
    <3> QED
      BY <3>1, <3>2 DEF PlanMade
  <2>3. ASSUME NEW c \in Classes, Mutate(c)
        PROVE  platform'[cid'][s] = control'[cid'].previous[s]
    <3>1. /\ control' = control /\ cid' = cid /\ exists' = exists /\ late' = late
          /\ outbound' = outbound /\ todo' = todo \ {c} /\ unseen' \subseteq unseen /\ pc = "mutate"
          /\ decision' = decision
      BY <2>3 DEF Mutate, disk
    <3>2. \A t \in Slots : t[1] # c => platform'[cid][t] = platform[cid][t]
      BY <2>3, MutateEffect
    <3> QED
      BY <2>1, <3>1, <3>2 DEF NoBlindOverwrite
  <2>4. ASSUME NEW i \in Ids, NEW t \in Slots, NEW v \in Values, Foreign(i, t, v)
        PROVE  platform'[cid'][s] = control'[cid'].previous[s]
    <3>1. /\ control' = control /\ cid' = cid /\ exists' = exists /\ pc' = pc
          /\ outbound' = outbound /\ todo' = todo /\ unseen' = unseen \union {t}
          /\ decision' = decision
          /\ late' = late \union {t} /\ platform' = [platform EXCEPT ![i][t] = v]
      BY <2>4 DEF Foreign, disk, call
    <3>2. s # t /\ s \in unseen \ late /\ platform'[cid][s] = platform[cid][s]
      BY <2>1, <3>1 DEF Attrs
    <3> QED
      BY <3>1, <3>2 DEF NoBlindOverwrite
  <2>5. ASSUME NEW i \in Ids, ForeignDelete(i)
        PROVE  platform'[cid'][s] = control'[cid'].previous[s]
    <3>1. /\ control' = control /\ cid' = cid /\ exists' = exists \ {i} /\ pc' = pc
          /\ outbound' = outbound /\ todo' = todo /\ unseen' = unseen /\ late' = late
          /\ platform' = [platform EXCEPT ![i] = AllAbsent] /\ decision' = decision
      BY <2>5 DEF ForeignDelete, disk, call, history
    <3>2. platform'[cid] = platform[cid] /\ cid \in exists
      BY <2>1, <3>1
    <3> QED
      BY <3>1, <3>2 DEF NoBlindOverwrite
  <2>6. CASE UNCHANGED vars
    BY <2>6 DEF NoBlindOverwrite, vars, disk, server, call, history
  <2> QED
    BY <2>2, <2>3, <2>4, <2>5, <2>6, NotMutating
<1> QED
  BY <1>1, <1>2, TypesAndFiles, PTL DEF Spec

-----------------------------------------------------------------------------
(* An edit is audited once *)

\* Steps that touch neither files nor audit entries.
LEMMA EditsKept ==
  ASSUME EditsInv, \A i \in FileIds' : \A c \in control'[i].pendingEdit : entries[c] = 0,
         entries' = entries, buffer' = {}, pc' \notin {"flip", "record", "mutate", "write"}
  PROVE  EditsInv'
BY DEF EditsInv, AuditOnce

\* Steps of other operators.
LEMMA EditsUnmoved ==
  ASSUME EditsInv, control' = control, entries' = entries, UNCHANGED call
  PROVE  EditsInv'
<1>1. FileIds' = FileIds
  BY SameFiles
<1> QED
  BY <1>1 DEF EditsInv, AuditOnce, call

\* Writing a file with no new pendingEdit.
LEMMA SaveKeepsEdits ==
  ASSUME Inv, EditsInv, NEW f \in ControlFile, Save(f), f.id \in FileIds,
         f.pendingEdit \subseteq control[f.id].pendingEdit
  PROVE  /\ \A i \in FileIds' : \A c \in control'[i].pendingEdit : entries[c] = 0
         /\ control'[f.id].pendingEdit = f.pendingEdit /\ FileIds' = FileIds
<1>1. /\ f.id \in Ids /\ control'[f.id] = f /\ \A i \in Ids : i # f.id => control'[i] = control[i]
      /\ FileIds' = FileIds \union {f.id}
  BY SavedFile DEF Inv
<1>2. FileIds \subseteq Ids
  BY DEF FileIds
<1> QED
  BY <1>1, <1>2 DEF EditsInv

LEMMA ReplayKeepsEdits == ASSUME Inv, NamesInv, EditsInv, Replay PROVE EditsInv'
<1>1. CASE BeginReplay \/ RewriteDoc
  <2>1. /\ control' = control /\ FileIds' = FileIds /\ entries' = entries /\ buffer' = buffer
        /\ pc' = "replay" /\ pc \in {"idle", "replay"}
    BY <1>1, SameFiles DEF BeginReplay, RewriteDoc, Idle, disk, history
  <2> QED
    BY <2>1 DEF EditsInv, AuditOnce
<1>2. CASE RewriteControl
  <2>1. /\ entries' = entries /\ buffer' = buffer /\ pc' = "replay" /\ pc = "replay"
    BY <1>2 DEF RewriteControl, history
  <2>2. \A i \in FileIds' : i \in FileIds /\ control'[i].pendingEdit = control[i].pendingEdit
    BY <1>2, RewriteControlEffect DEF FileIds
  <2> QED
    BY <2>1, <2>2 DEF EditsInv, AuditOnce
<1>3. CASE Rename
  <2>1. /\ entries' = entries /\ buffer' = buffer /\ pc' = "replay" /\ pc = "replay"
    BY <1>3 DEF Rename, history
  <2>2. \A i \in FileIds' : \E j \in FileIds : control'[i] = control[j]
    <3>1. FileIds \subseteq Ids
      BY DEF FileIds
    <3> QED
      BY <1>3, <3>1, RenameEffect
  <2> QED
    BY <2>1, <2>2 DEF EditsInv, AuditOnce
<1>4. CASE UnlinkJournal
  <2>1. /\ control' = control /\ FileIds' = FileIds /\ entries' = entries /\ buffer' = buffer
        /\ pc = "replay" /\ cid' = cid
        /\ \/ pc' = "idle"
           \/ pc' = "flip" /\ work' = control[cid]
    BY <1>4, SameFiles DEF UnlinkJournal, history
  <2> QED
    BY <2>1 DEF EditsInv, AuditOnce
<1> QED
  BY <1>1, <1>2, <1>3, <1>4 DEF Replay

LEMMA CallsKeepEdits ==
  ASSUME Inv, NamesInv, EditsInv, CallStep
  PROVE  EditsInv'
<1> USE Bounds
<1>1. CASE CreateControl \/ AppendOperation \/ AssignEdges
  <2>1. /\ control' = control /\ FileIds' = FileIds /\ entries' = entries /\ buffer' = buffer
        /\ pc \in {"create", "append", "attributes"}
        /\ pc' \in {"append", "replay", "finalise"}
    BY <1>1, SameFiles DEF CreateControl, AppendOperation, AssignEdges, disk, history
  <2> QED
    BY <2>1 DEF EditsInv, AuditOnce
<1>2. CASE FlipLifecycle
  <2> DEFINE g == [work EXCEPT !.lifecycle = "partially-pushed"]
  <2>0. "partially-pushed" \in Lifecycles /\ cid \in Ids
    BY DEF Lifecycles, Inv, TypeOK
  <2>1. HasWork /\ cid \in FileIds /\ work.pendingEdit \subseteq control[cid].pendingEdit
        /\ buffer = {}
    BY <1>2 DEF FlipLifecycle, Inv, CallInv, NamesInv, EditsInv
  <2>2. g \in ControlFile /\ g.id = cid /\ g.pendingEdit = work.pendingEdit
    BY <2>0, <2>1, MovedFile DEF HasWork
  <2>3. Save(g)
    BY <1>2 DEF FlipLifecycle
  <2> HIDE DEF g
  <2>4. \A i \in FileIds' : \A c \in control'[i].pendingEdit : entries[c] = 0
    BY <2>1, <2>2, <2>3, SaveKeepsEdits
  <2> QED
    BY <1>2, <2>1, <2>4, EditsKept DEF FlipLifecycle, history
<1>3. ASSUME NEW c \in Classes, SetAttributes(c) PROVE EditsInv'
  <2>1. /\ control' = control /\ FileIds' = FileIds /\ entries' = entries /\ buffer' = buffer
        /\ pc = "attributes" /\ pc' = "record" /\ cid' = cid
    BY <1>3, SameFiles DEF SetAttributes, disk
  <2>2. work'.pendingEdit \subseteq control[cid].pendingEdit
    BY <1>3, SetAttributesEffect
  <2> QED
    BY <2>1, <2>2 DEF EditsInv, AuditOnce
<1>4. CASE RecordAttributes
  <2>1. /\ HasWork /\ HasFile /\ Save(work) /\ work.pendingEdit \subseteq control[cid].pendingEdit
        /\ buffer = {} /\ buffer' = buffer /\ entries' = entries /\ pc' = "attributes"
    BY <1>4 DEF RecordAttributes, history, Inv, CallInv, EditsInv
  <2>2. \A i \in FileIds' : \A c \in control'[i].pendingEdit : entries[c] = 0
    BY <2>1, SaveKeepsEdits DEF HasWork, HasFile
  <2> QED
    BY <2>1, <2>2, EditsKept
<1>5. CASE Finalise
  <2> DEFINE g == [control[cid] EXCEPT !.lifecycle = "brownfield"]
  <2>0. "brownfield" \in Lifecycles /\ cid \in Ids
    BY DEF Lifecycles, Inv, TypeOK
  <2>1. HasFile /\ control[cid] \in ControlFile /\ FileOK(control[cid])
    BY <1>5, FileFacts DEF Finalise, Inv, CallInv, FilesInv, HasFile
  <2>2. g \in ControlFile /\ g.id = cid /\ g.pendingEdit = control[cid].pendingEdit
    BY <2>0, <2>1, MovedFile DEF HasFile
  <2>3. control' = control \/ Save(g)
    BY <1>5 DEF Finalise
  <2> HIDE DEF g
  <2>4. \A i \in FileIds' : \A c \in control'[i].pendingEdit : entries[c] = 0
    <3>1. CASE control' = control
      BY <3>1, SameFiles DEF EditsInv
    <3>2. CASE Save(g)
      BY <2>1, <2>2, <3>2, SaveKeepsEdits DEF HasFile
    <3> QED
      BY <2>3, <3>1, <3>2
  <2> QED
    BY <1>5, <2>4, EditsKept DEF Finalise, Return, history
<1>6. CASE PlatformRefuses
  <2>1. control' = control /\ FileIds' = FileIds /\ entries' = entries /\ buffer' = {} /\ pc' = "idle"
    BY <1>6, SameFiles DEF PlatformRefuses, Return, disk, history
  <2> QED
    BY <2>1 DEF EditsInv, AuditOnce
<1>7. ASSUME NEW fetched \in BOOLEAN, PushPlan(fetched) PROVE EditsInv'
  <2>1. control' = control /\ FileIds' = FileIds /\ entries' = entries
    BY <1>7, SameFiles DEF PushPlan, disk
  <2>2. CASE Return
    BY <2>1, <2>2 DEF Return, EditsInv, AuditOnce
  <2>3. CASE PlanMade
    <3>1. /\ HasFile /\ cid' = cid /\ pc' \in {"mutate", "write"}
          /\ todo' \subseteq control[cid].pendingEdit
          /\ work'.pendingEdit \subseteq control[cid].pendingEdit
          /\ buffer' \subseteq control[cid].pendingEdit \ work'.pendingEdit
      BY <2>3 DEF PlanMade
    <3> QED
      BY <2>1, <3>1 DEF EditsInv, AuditOnce, HasFile
  <2> QED
    BY <1>7, <2>2, <2>3, PushPlanEffect
<1>8. ASSUME NEW c \in Classes, Mutate(c) PROVE EditsInv'
  <2>1. /\ control' = control /\ FileIds' = FileIds /\ entries' = entries /\ cid' = cid
        /\ pc = "mutate" /\ pc' \in {"mutate", "write"} /\ todo' = todo \ {c} /\ c \in todo
        /\ buffer' \subseteq buffer \union {c} /\ HasFile
    BY <1>8, SameFiles DEF Mutate, disk, Inv, CallInv
  <2>2. work'.pendingEdit = work.pendingEdit \ {c}
    BY <1>8, MutateEffect
  <2>3. c \in control[cid].pendingEdit /\ entries[c] = 0
    BY <2>1 DEF EditsInv, HasFile
  <2>4. buffer' \subseteq control[cid].pendingEdit \ work'.pendingEdit
    BY <2>1, <2>2, <2>3 DEF EditsInv
  <2>5. \A d \in buffer' : entries[d] = 0
    BY <2>1, <2>3 DEF EditsInv
  <2> QED
    BY <2>1, <2>2, <2>4, <2>5 DEF EditsInv, AuditOnce
<1>9. CASE WriteFile
  <2>1. /\ HasWork /\ HasFile /\ Save(work) /\ work.pendingEdit \subseteq control[cid].pendingEdit
        /\ buffer \intersect work.pendingEdit = {} /\ entries' = entries /\ journal = 0
    BY <1>9 DEF WriteFile, history, Inv, CallInv, EditsInv
  <2>2. /\ \A i \in FileIds' : \A c \in control'[i].pendingEdit : entries[c] = 0
        /\ control'[cid].pendingEdit = work.pendingEdit /\ FileIds' = FileIds
    BY <2>1, SaveKeepsEdits DEF HasWork, HasFile
  <2>3. FileIds = {cid}
    BY <2>1 DEF NamesInv, HasFile
  <2>4. CASE Return
    BY <2>1, <2>2, <2>4, EditsKept DEF Return
  <2>5. CASE ~Return
    <3>1. pc' = "flush" /\ buffer' = buffer
      BY <1>9, <2>5 DEF WriteFile
    <3> QED
      BY <2>1, <2>2, <2>3, <3>1 DEF EditsInv, AuditOnce
  <2> QED
    BY <2>4, <2>5
<1>10. ASSUME NEW c \in Classes, Flush(c) PROVE EditsInv'
  <2>1. /\ control' = control /\ FileIds' = FileIds /\ pc = "flush" /\ c \in buffer
        /\ buffer' \subseteq buffer \ {c} /\ pc' \in {"idle", "flush"} /\ (pc' = "idle" => buffer' = {})
    BY <1>10, SameFiles DEF Flush, Return, disk
  <2>2. entries' \in [Classes -> Nat] /\ entries'[c] = 1 /\ \A d \in Classes : d # c => entries'[d] = entries[d]
    BY <1>10, <2>1 DEF Flush, Inv, TypeOK, EditsInv
  <2>3. \A i \in FileIds' : \A d \in control'[i].pendingEdit : entries'[d] = 0
    <3> SUFFICES ASSUME NEW i \in FileIds, NEW d \in control[i].pendingEdit PROVE entries'[d] = 0
      BY <2>1
    <3>1. control[i] \in ControlFile
      BY FileFacts DEF Inv
    <3>2. d \in Classes /\ d # c /\ entries[d] = 0
      BY <2>1, <3>1 DEF EditsInv, ControlFile
    <3> QED
      BY <2>2, <3>2
  <2>4. \A d \in buffer' : entries'[d] = 0
    BY <2>1, <2>2 DEF EditsInv, Inv, TypeOK
  <2>5. AuditOnce'
    BY <2>2 DEF EditsInv, AuditOnce
  <2> QED
    BY <2>1, <2>3, <2>4, <2>5 DEF EditsInv
<1> QED
  BY <1>1, <1>2, <1>3, <1>4, <1>5, <1>6, <1>7, <1>8, <1>9, <1>10 DEF CallStep

\* The first edit of a class starts its count of entries anew.
LEMMA EditStarts ==
  ASSUME Inv, EditsInv, NEW i \in Ids, NEW c \in Classes, EditMade(i, c), Ready, i \in FileIds,
         control[i].id = i, NewIntent(control[i], c), UNCHANGED call
  PROVE  EditsInv'
<1>1. PICK g \in ControlFile : Save(g) /\ g.id = control[i].id
                               /\ g.pendingEdit = control[i].pendingEdit \union {c}
  BY DEF EditMade
<1>2. /\ control'[i] = g /\ \A j \in Ids : j # i => control'[j] = control[j]
      /\ FileIds' = FileIds
  BY <1>1, SavedFile DEF Inv
<1>3. entries \in [Classes -> Nat]
  BY DEF Inv, TypeOK
<1>4. entries'[c] = 0 /\ \A d \in Classes : d # c => entries'[d] = entries[d]
  BY <1>3 DEF NewIntent, EditsInv
<1>5. ASSUME NEW j \in FileIds', NEW d \in control'[j].pendingEdit PROVE entries'[d] = 0
  <2>1. j \in FileIds /\ j \in Ids /\ control[j] \in ControlFile
    BY <1>2, <1>5, FileFacts DEF Inv
  <2>2. d = c \/ d \in control[j].pendingEdit
    BY <1>1, <1>2, <1>5, <2>1
  <2>3. CASE d = c
    BY <1>4, <2>3
  <2>4. CASE d # c
    <3>1. d \in Classes /\ entries[d] = 0
      BY <2>1, <2>2, <2>4 DEF EditsInv, ControlFile
    <3> QED
      BY <1>4, <2>4, <3>1
  <2> QED
    BY <2>3, <2>4
<1>6. AuditOnce'
  BY <1>4 DEF EditsInv, AuditOnce
<1>7. pc' = "idle" /\ buffer' = {}
  BY DEF Ready, Idle, call, EditsInv
<1> QED
  BY <1>5, <1>6, <1>7 DEF EditsInv

LEMMA OthersKeepEdits ==
  ASSUME Inv, NamesInv, EditsInv,
         \/ Fail
         \/ \E i \in Ids : \/ StartGreenfield(i) \/ StartBrownfield(i) \/ Pull(i) \/ Tombstone(i)
                           \/ ForeignDelete(i)
                           \/ \E c \in Classes : Promote(i, c)
                           \/ \E s \in Slots, v \in Values :
                                SetLocalEdited(i, s, v) \/ HandEdit(i, s, v) \/ Foreign(i, s, v)
         \/ UNCHANGED vars
  PROVE  EditsInv'
<1> USE Bounds
<1>0. \A i \in FileIds : Ready => control[i].id = i
  BY DEF Inv, FilesInv, NamesInv, Ready, Idle
<1>1. CASE Fail
  <2>1. control' = control /\ FileIds' = FileIds /\ entries' = entries /\ buffer' = {} /\ pc' = "idle"
    BY <1>1, SameFiles DEF Fail, Return, disk
  <2> QED
    BY <2>1 DEF EditsInv, AuditOnce
<1>2. ASSUME NEW i \in Ids, StartGreenfield(i) PROVE EditsInv'
  <2>1. /\ control' = control /\ FileIds' = FileIds /\ entries' = entries /\ buffer' = buffer
        /\ pc = "idle" /\ cid' = i
        /\ pc' \in {"flip", "create", "attributes"}
        /\ pc' = "flip" => work' = control[i]
    BY <1>0, <1>2, SameFiles DEF StartGreenfield, Ready, Idle, disk, history
  <2> QED
    BY <2>1 DEF EditsInv, AuditOnce
<1>3. ASSUME NEW i \in Ids, StartBrownfield(i) PROVE EditsInv'
  <2>1. /\ control' = control /\ FileIds' = FileIds /\ entries' = entries /\ buffer' = buffer
        /\ pc = "idle" /\ pc' = "review"
    BY <1>3, SameFiles DEF StartBrownfield, Ready, Idle, disk, history
  <2> QED
    BY <2>1 DEF EditsInv, AuditOnce
<1>4. ASSUME NEW i \in Ids, Pull(i) PROVE EditsInv'
  <2>1. /\ control' = control /\ FileIds' = FileIds /\ entries' = entries /\ buffer' = buffer
        /\ pc = "idle" /\ pc' = "write" /\ cid' = i
    BY <1>4, SameFiles DEF Pull, Ready, Idle, disk
  <2>2. control[i] \in ControlFile /\ FileOK(control[i])
    BY <1>4, FileFacts DEF Pull, Inv, FilesInv
  <2>3. work'.pendingEdit = control[i].pendingEdit
    <3>1. CASE i \in exists
      <4>1. platform[i] \in Attrs
        BY DEF Inv, TypeOK
      <4>2. work' = Pulled(control[i], platform[i])
        BY <1>4, <3>1 DEF Pull
      <4> QED
        BY <2>2, <4>1, <4>2, PulledFile
    <3>2. CASE i \notin exists
      <4>1. "tombstoned" \in Lifecycles
        BY DEF Lifecycles
      <4>2. work' = [control[i] EXCEPT !.lifecycle = "tombstoned"]
        BY <1>4, <3>2 DEF Pull
      <4> QED
        BY <2>2, <4>1, <4>2, MovedFile
    <3> QED
      BY <3>1, <3>2
  <2> QED
    BY <2>1, <2>3 DEF EditsInv, AuditOnce
<1>5. ASSUME NEW i \in Ids, Tombstone(i) PROVE EditsInv'
  <2> DEFINE g == [control[i] EXCEPT !.lifecycle = "tombstoned"]
  <2>1. "tombstoned" \in Lifecycles
    BY DEF Lifecycles
  <2>2. control[i] \in ControlFile /\ FileOK(control[i]) /\ i \in FileIds /\ control[i].id = i
    BY <1>0, <1>5, FileFacts DEF Tombstone, Inv, FilesInv
  <2>3. g \in ControlFile /\ g.id = i /\ g.pendingEdit = control[i].pendingEdit
    BY <2>1, <2>2, MovedFile
  <2>4. Save(g)
    BY <1>5 DEF Tombstone
  <2> HIDE DEF g
  <2>5. \A j \in FileIds' : \A c \in control'[j].pendingEdit : entries[c] = 0
    BY <2>2, <2>3, <2>4, SaveKeepsEdits
  <2>6. entries' = entries /\ pc' = "idle" /\ buffer' = {}
    BY <1>5 DEF Tombstone, Ready, Idle, call, history, EditsInv
  <2> QED
    BY <2>5, <2>6, EditsKept
<1>6. ASSUME NEW i \in Ids, ForeignDelete(i) PROVE EditsInv'
  BY <1>6, EditsUnmoved DEF ForeignDelete, disk, history
<1>7. ASSUME NEW i \in Ids, NEW c \in Classes, Promote(i, c) PROVE EditsInv'
  <2>1. Ready /\ i \in FileIds /\ NewIntent(control[i], c) /\ UNCHANGED call
    BY <1>7 DEF Promote
  <2> QED
    BY <1>0, <1>7, <2>1, PromoteEffect, EditStarts
<1>8. ASSUME NEW i \in Ids, NEW s \in Slots, NEW v \in Values, SetLocalEdited(i, s, v)
      PROVE  EditsInv'
  <2>1. Ready /\ i \in FileIds /\ NewIntent(control[i], s[1]) /\ UNCHANGED call
    BY <1>8 DEF SetLocalEdited
  <2> QED
    BY <1>0, <1>8, <2>1, SetLocalEditedEffect, SlotClass, EditStarts
<1>9. ASSUME NEW i \in Ids, NEW s \in Slots, NEW v \in Values, HandEdit(i, s, v)
      PROVE  EditsInv'
  <2>1. PICK g \in ControlFile : /\ control' = [control EXCEPT ![i] = g] /\ g.id = i
                                 /\ i \in FileIds /\ g.pendingEdit = control[i].pendingEdit
    BY <1>9, HandEditEffect
  <2>2. Save(g)
    BY <2>1 DEF Save
  <2>3. \A j \in FileIds' : \A c \in control'[j].pendingEdit : entries[c] = 0
    BY <2>1, <2>2, SaveKeepsEdits
  <2>4. entries' = entries /\ pc' = "idle" /\ buffer' = {}
    BY <1>9 DEF HandEdit, Ready, Idle, call, history, EditsInv
  <2> QED
    BY <2>3, <2>4, EditsKept
<1>10. ASSUME NEW i \in Ids, NEW s \in Slots, NEW v \in Values, Foreign(i, s, v)
       PROVE  EditsInv'
  BY <1>10, EditsUnmoved DEF Foreign, disk
<1>11. CASE UNCHANGED vars
  BY <1>11, EditsUnmoved DEF vars, disk, history
<1> QED
  BY <1>1, <1>2, <1>3, <1>4, <1>5, <1>6, <1>7, <1>8, <1>9, <1>10, <1>11

\* Unless a journal was deleted, a pending edit has no audit entry, and neither has one
\* that is buffered to be written.
THEOREM EditsHold == Spec => []AuditInv
<1>1. Init => AuditInv
  <2> SUFFICES ASSUME Init PROVE EditsInv
    BY DEF AuditInv
  <2>1. control[0] = NewControl /\ FileIds = {0}
    BY NewFile, FileAssumption, Bounds DEF Init, FileIds
  <2>2. control[0].pendingEdit = {}
    BY <2>1 DEF NewControl
  <2>3. AuditOnce
    BY DEF Init, AuditOnce
  <2> QED
    BY <2>1, <2>2, <2>3 DEF Init, EditsInv
<1>2. Inv /\ RefsInv /\ AuditInv /\ [Next]_vars => AuditInv'
  <2> SUFFICES ASSUME Inv, RefsInv, AuditInv, [Next]_vars, ~cleared' PROVE EditsInv'
    BY DEF AuditInv
  <2>1. ~cleared /\ NamesInv /\ EditsInv
    BY ClearedStays DEF RefsInv, AuditInv
  <2>2. ~ClearWal
    BY DEF ClearWal
  <2> QED
    BY <2>1, <2>2, ReplayKeepsEdits, CallsKeepEdits, OthersKeepEdits DEF Next
<1> QED
  BY <1>1, <1>2, TypesAndFiles, NamesHold, PTL DEF Spec

\* However often the push of an edit is tried again, and wherever a call dies, the
\* edit gets one audit entry at most; a directory whose journal was deleted may hold
\* two files of the Control and is left out.
THEOREM AuditOnceHolds == Spec => [](cleared \/ AuditOnce)
<1>1. AuditInv => (cleared \/ AuditOnce)
  BY DEF AuditInv, EditsInv
<1> QED
  BY <1>1, EditsHold, PTL

-----------------------------------------------------------------------------
(* A brownfield Control is complete *)

LEMMA OneFile ==
  ASSUME NamesInv, journal = 0, NEW i \in FileIds
  PROVE  FileIds = {i}
BY DEF NamesInv

LEMMA CallHasNoJournal ==
  ASSUME Inv, pc \notin {"idle", "replay"}
  PROVE  journal = 0
BY DEF Inv, CallInv

\* What is known of the files when no step touches them.
LEMMA FilesPushedKept ==
  ASSUME FilesPushed, control' = control, platform' = platform, exists' = exists, unseen' = unseen
  PROVE  FilesPushed'
BY SameFiles DEF FilesPushed, Synced

\* What is known of the one file.
LEMMA OneFilePushed ==
  ASSUME NEW i, FileIds' = {i}, i # 0,
         (i \in exists' /\ control'[i].lifecycle \in Unpublished) =>
           \A s \in Slots \ unseen' :
             /\ control'[i].attributes[s] = Absent => platform'[i][s] = Absent
             /\ s[1] \in control'[i].pushed => control'[i].attributes[s] = platform'[i][s]
  PROVE  FilesPushed'
BY DEF FilesPushed, Synced

LEMMA QuietCall ==
  ASSUME pc' \in {"idle", "create", "append", "flush"}
  PROVE  CallPushed'
BY DEF CallPushed

LEMMA ReplayKeepsPush == ASSUME Inv, NamesInv, PushInv, Replay PROVE PushInv'
<1> USE Bounds
<1>1. CASE BeginReplay \/ RewriteDoc
  <2>1. /\ control' = control /\ platform' = platform /\ exists' = exists /\ unseen' = unseen
        /\ pc' = "replay" /\ at' # Len(Docs) + 3
    BY <1>1 DEF BeginReplay, RewriteDoc, disk, server, history
  <2>2. FilesPushed'
    BY <2>1, FilesPushedKept DEF PushInv
  <2> QED
    BY <2>1, <2>2 DEF PushInv, CallPushed
<1>2. CASE RewriteControl
  <2>1. /\ platform' = platform /\ exists' = exists /\ unseen' = unseen
        /\ pc' = "replay" /\ at' = Len(Docs) + 2
    BY <1>2 DEF RewriteControl, server, history
  <2>2. /\ FileIds' = FileIds /\ \A i \in FileIds \ {0} : control'[i] = control[i]
        /\ 0 \in FileIds => /\ control'[0].lifecycle = control[0].lifecycle
                            /\ control'[0].pushed = control[0].pushed
    BY <1>2, RewriteControlEffect DEF FileIds
  <2>3. FilesPushed'
    BY <2>1, <2>2 DEF PushInv, FilesPushed, Synced
  <2> QED
    BY <2>1, <2>3 DEF PushInv, CallPushed
<1>3. CASE Rename
  <2>1. /\ platform' = platform /\ exists' = exists /\ unseen' = unseen /\ cid' = cid
        /\ pc = "replay" /\ pc' = "replay" /\ at = Len(Docs) + 2 /\ journal # 0 /\ journal \in Ids
    BY <1>3 DEF Rename, server, history, Inv, ReplayInv, TypeOK
  <2>2. CASE 0 \notin FileIds
    <3>1. control' = control /\ cid = 0
      BY <1>3, <2>1, <2>2, RenameEffect DEF Inv, ReplayInv
    <3>2. FilesPushed'
      BY <2>1, <3>1, FilesPushedKept DEF PushInv
    <3> QED
      BY <2>1, <3>1, <3>2 DEF PushInv, CallPushed
  <2>3. CASE 0 \in FileIds
    <3>1. /\ control'[journal] = control[0] /\ FileIds' = {journal}
          /\ control[0].lifecycle = "greenfield" /\ cid \in {0, journal}
      BY <1>3, <2>1, <2>3, RenameEffect DEF NamesInv, Rewriting, Inv, CallInv, ReplayInv
    <3>2. /\ control[0].pushed = {}
          /\ \A s \in Slots : platform[journal][s] = Absent \/ s \in unseen
      BY <2>1, <2>3, <3>1 DEF PushInv, FilesPushed
    <3>3. FilesPushed'
      BY <2>1, <3>1, <3>2, OneFilePushed
    <3> QED
      BY <2>1, <3>1, <3>3 DEF PushInv, CallPushed
  <2> QED
    BY <2>2, <2>3
<1>4. CASE UnlinkJournal
  <2>1. /\ control' = control /\ platform' = platform /\ exists' = exists /\ unseen' = unseen
        /\ cid' = cid /\ pc = "replay" /\ at = Len(Docs) + 3
        /\ \/ pc' = "idle"
           \/ pc' = "flip" /\ work' = control[cid] /\ cid # 0
    BY <1>4 DEF UnlinkJournal, server, history
  <2>2. FilesPushed'
    BY <2>1, FilesPushedKept DEF PushInv
  <2>3. CallPushed'
    <3>1. CASE pc' = "idle"
      BY <3>1, QuietCall
    <3>2. CASE pc' = "flip" /\ work' = control[cid] /\ cid # 0
      <4>1. cid \in FileIds /\ control[cid].lifecycle = "greenfield"
        BY <2>1, <3>2 DEF PushInv, CallPushed, Inv, ReplayInv, HasFile
      <4>2. cid \in exists => Synced(control[cid], cid)
        BY <3>2, <4>1 DEF PushInv, FilesPushed, Unpublished
      <4> QED
        BY <2>1, <3>2, <4>1, <4>2 DEF CallPushed, Unpublished, Synced
    <3> QED
      BY <2>1, <3>1, <3>2
  <2> QED
    BY <2>2, <2>3 DEF PushInv
<1> QED
  BY <1>1, <1>2, <1>3, <1>4 DEF Replay

LEMMA GreenfieldKeepsPush ==
  ASSUME Inv, NamesInv, PushInv,
         \/ \E i \in Ids : StartGreenfield(i)
         \/ CreateControl \/ AppendOperation \/ FlipLifecycle
         \/ \E c \in Classes : SetAttributes(c)
         \/ RecordAttributes \/ AssignEdges \/ Finalise
  PROVE  PushInv'
<1> USE Bounds
<1>1. ASSUME NEW i \in Ids, StartGreenfield(i) PROVE PushInv'
  <2>1. /\ control' = control /\ platform' = platform /\ exists' = exists /\ unseen' = unseen
        /\ i \in FileIds /\ pc = "idle" /\ journal = 0
    BY <1>1 DEF StartGreenfield, Ready, Idle, disk, server, history
  <2>2. control[i].id = i /\ cid' = i
    BY <1>1, <2>1 DEF StartGreenfield, NamesInv, Inv, FilesInv
  <2>3. \/ pc' = "create"
        \/ pc' = "flip" /\ work' = control[i] /\ i # 0 /\ control[i].lifecycle = "greenfield"
        \/ pc' = "attributes" /\ control[i].lifecycle = "partially-pushed"
    BY <1>1, <2>2 DEF StartGreenfield, Resumes
  <2>4. FilesPushed'
    BY <2>1, FilesPushedKept DEF PushInv
  <2>5. (i # 0 /\ control[i].lifecycle = "greenfield" /\ i \in exists) => Synced(control[i], i)
    BY <2>1 DEF PushInv, FilesPushed, Unpublished
  <2>6. CallPushed'
    BY <2>1, <2>2, <2>3, <2>5 DEF CallPushed, Unpublished, Synced
  <2> QED
    BY <2>4, <2>6 DEF PushInv
<1>2. CASE CreateControl
  <2>1. /\ control' = control /\ platform' = platform /\ unseen' = unseen /\ FileIds' = FileIds
        /\ pc' = "append" /\ pc = "create" /\ 0 \in FileIds
    BY <1>2, SameFiles DEF CreateControl, disk, history, Inv, CallInv
  <2>2. FileIds = {0}
    BY <2>1, OneFile, CallHasNoJournal
  <2>3. FilesPushed'
    BY <2>1, <2>2 DEF PushInv, FilesPushed
  <2> QED
    BY <2>1, <2>3, QuietCall DEF PushInv
<1>3. CASE AppendOperation
  <2>1. /\ control' = control /\ platform' = platform /\ exists' = exists /\ unseen' = unseen
        /\ pc' = "replay" /\ at' = 1
    BY <1>3 DEF AppendOperation, server, history
  <2>2. FilesPushed'
    BY <2>1, FilesPushedKept DEF PushInv
  <2> QED
    BY <2>1, <2>2 DEF PushInv, CallPushed
<1>4. CASE FlipLifecycle
  <2> DEFINE g == [work EXCEPT !.lifecycle = "partially-pushed"]
  <2>0. "partially-pushed" \in Lifecycles /\ cid \in Ids
    BY DEF Lifecycles, Inv, TypeOK
  <2>1. /\ HasWork /\ cid \in FileIds /\ platform' = platform /\ exists' = exists
        /\ unseen' = unseen /\ cid' = cid /\ pc = "flip" /\ pc' = "attributes"
        /\ (cid \in exists => Synced(work, cid))
    BY <1>4 DEF FlipLifecycle, server, history, Inv, CallInv, NamesInv, PushInv, CallPushed
  <2>2. /\ g \in ControlFile /\ g.id = cid /\ g.lifecycle = "partially-pushed" /\ cid # 0
        /\ g.attributes = work.attributes /\ g.pushed = work.pushed
    BY <2>0, <2>1, MovedFile DEF HasWork
  <2>3. Save(g)
    BY <1>4 DEF FlipLifecycle
  <2>4. FileIds = {cid}
    BY <2>1, OneFile, CallHasNoJournal
  <2> HIDE DEF g
  <2>5. control'[cid] = g /\ FileIds' = {cid}
    BY <2>2, <2>3, <2>4, SavedFile DEF Inv
  <2>6. FilesPushed'
    BY <2>1, <2>2, <2>5, OneFilePushed DEF Synced
  <2>7. CallPushed'
    BY <2>1, <2>2, <2>5 DEF CallPushed
  <2> QED
    BY <2>6, <2>7 DEF PushInv
<1>5. ASSUME NEW c \in Classes, SetAttributes(c) PROVE PushInv'
  <2>1. /\ control' = control /\ exists' = exists /\ FileIds' = FileIds /\ cid \in exists
        /\ pc = "attributes" /\ pc' = "record" /\ cid' = cid /\ cid \in FileIds /\ cid # 0
        /\ control[cid].lifecycle = "partially-pushed"
    BY <1>5, SameFiles DEF SetAttributes, disk, PushInv, CallPushed, Inv, CallInv, HasFile
  <2>2. FileIds = {cid}
    BY <2>1, OneFile, CallHasNoJournal
  <2> DEFINE f == control[cid]
  <2>3. /\ \A s \in Slots : platform'[cid][s] = IF s[1] = c /\ f.attributes[s] # Absent
                                                THEN f.attributes[s] ELSE platform[cid][s]
        /\ unseen' = unseen \ {s \in SlotsOf(c) : f.attributes[s] # Absent}
        /\ work'.lifecycle = f.lifecycle /\ work'.attributes = f.attributes
        /\ work'.pushed = f.pushed \union {c}
    BY <1>5, SetAttributesEffect
  <2>4. Synced(f, cid)
    BY <2>1 DEF PushInv, FilesPushed, Unpublished
  <2>5. \A s \in Slots \ unseen' :
          /\ f.attributes[s] = Absent => platform'[cid][s] = Absent
          /\ s[1] \in f.pushed \union {c} => f.attributes[s] = platform'[cid][s]
    <3> SUFFICES ASSUME NEW s \in Slots \ unseen'
                 PROVE  /\ f.attributes[s] = Absent => platform'[cid][s] = Absent
                        /\ s[1] \in f.pushed \union {c} => f.attributes[s] = platform'[cid][s]
      OBVIOUS
    <3>1. CASE s[1] = c /\ f.attributes[s] # Absent
      BY <2>3, <3>1
    <3>2. CASE ~(s[1] = c /\ f.attributes[s] # Absent)
      <4>1. s \notin unseen /\ platform'[cid][s] = platform[cid][s]
        BY <2>3, <3>2 DEF SlotsOf
      <4> QED
        BY <2>4, <3>2, <4>1 DEF Synced
    <3> QED
      BY <3>1, <3>2
  <2>6. FilesPushed'
    BY <2>1, <2>2, <2>5, OneFilePushed
  <2>7. CallPushed'
    BY <2>1, <2>3, <2>5 DEF CallPushed, Synced, Unpublished
  <2> QED
    BY <2>6, <2>7 DEF PushInv
<1>6. CASE RecordAttributes
  <2>1. /\ HasWork /\ HasFile /\ Save(work) /\ platform' = platform /\ exists' = exists
        /\ unseen' = unseen /\ cid' = cid /\ pc = "record" /\ pc' = "attributes"
        /\ (cid \in exists => Synced(work, cid)) /\ work.lifecycle = "partially-pushed"
    BY <1>6 DEF RecordAttributes, server, history, Inv, CallInv, PushInv, CallPushed
  <2>2. FileIds = {cid}
    BY <2>1, OneFile, CallHasNoJournal DEF HasFile
  <2>3. control'[cid] = work /\ FileIds' = {cid} /\ cid # 0
    BY <2>1, <2>2, SavedFile DEF Inv, HasWork
  <2>4. FilesPushed'
    BY <2>1, <2>3, OneFilePushed DEF Synced
  <2>5. CallPushed'
    BY <2>1, <2>3 DEF CallPushed
  <2> QED
    BY <2>4, <2>5 DEF PushInv
<1>7. CASE AssignEdges
  <2>1. /\ control' = control /\ platform' = platform /\ exists' = exists /\ unseen' = unseen
        /\ cid' = cid /\ pc = "attributes" /\ pc' = "finalise" /\ cid \in edges'
    BY <1>7 DEF AssignEdges, disk, history
  <2>2. FilesPushed'
    BY <2>1, FilesPushedKept DEF PushInv
  <2> QED
    BY <2>1, <2>2 DEF PushInv, CallPushed
<1>8. CASE Finalise
  <2> DEFINE g == [control[cid] EXCEPT !.lifecycle = "brownfield"]
  <2>0. "brownfield" \in Lifecycles /\ cid \in Ids
    BY DEF Lifecycles, Inv, TypeOK
  <2>1. /\ HasFile /\ control[cid] \in ControlFile /\ FileOK(control[cid])
        /\ platform' = platform /\ exists' = exists /\ unseen' = unseen /\ pc' = "idle"
        /\ pc = "finalise"
    BY <1>8, FileFacts DEF Finalise, Return, server, history, Inv, CallInv, FilesInv, HasFile
  <2>2. g \in ControlFile /\ g.id = cid /\ g.lifecycle = "brownfield" /\ cid # 0
    BY <2>0, <2>1, MovedFile DEF HasFile
  <2>3. control' = control \/ Save(g)
    BY <1>8 DEF Finalise
  <2> HIDE DEF g
  <2>4. FilesPushed'
    <3>1. CASE control' = control
      BY <2>1, <3>1, FilesPushedKept DEF PushInv
    <3>2. CASE Save(g)
      <4>1. FileIds = {cid}
        BY <2>1, OneFile, CallHasNoJournal DEF HasFile
      <4>2. control'[cid] = g /\ FileIds' = {cid}
        BY <2>2, <3>2, <4>1, SavedFile DEF Inv
      <4> QED
        BY <2>2, <4>2, OneFilePushed DEF Unpublished
    <3> QED
      BY <2>3, <3>1, <3>2
  <2> QED
    BY <2>1, <2>4, QuietCall DEF PushInv
<1> QED
  BY <1>1, <1>2, <1>3, <1>4, <1>5, <1>6, <1>7, <1>8

\* The operator pulls no file that is not published yet; a pull makes a file
\* brownfield without Steps B to D.
PullsPublished == PullLives \intersect Unpublished = {}

LEMMA BrownfieldKeepsPush ==
  ASSUME Inv, NamesInv, PushInv,
         \/ \E i \in Ids : StartBrownfield(i)
         \/ \E fetched \in BOOLEAN : PushPlan(fetched)
         \/ \E c \in Classes : Mutate(c) \/ Flush(c)
         \/ WriteFile
  PROVE  PushInv'
<1> USE Bounds
<1>1. ASSUME NEW i \in Ids, StartBrownfield(i) PROVE PushInv'
  <2>1. /\ control' = control /\ platform' = platform /\ exists' = exists /\ unseen' = unseen
        /\ cid' = i /\ pc' = "review" /\ control[i].lifecycle = "brownfield"
    BY <1>1 DEF StartBrownfield, disk, server, history
  <2>2. FilesPushed'
    BY <2>1, FilesPushedKept DEF PushInv
  <2> QED
    BY <2>1, <2>2 DEF PushInv, CallPushed
<1>2. ASSUME pc \in {"review", "mutate"} PROVE FileIds = {cid} /\ cid # 0
                                                /\ control[cid].lifecycle = "brownfield"
  <2>1. HasFile /\ journal = 0
    BY <1>2 DEF Inv, CallInv
  <2> QED
    BY <1>2, <2>1, OneFile DEF HasFile, PushInv, CallPushed
<1>3. ASSUME NEW fetched \in BOOLEAN, PushPlan(fetched) PROVE PushInv'
  <2>1. control' = control /\ FileIds' = FileIds /\ exists' = exists /\ pc = "review"
    BY <1>3, SameFiles DEF PushPlan, disk, server
  <2>2. FilesPushed'
    BY <1>2, <2>1, OneFilePushed DEF Unpublished
  <2>3. CASE Return
    BY <2>2, <2>3, QuietCall DEF Return, PushInv
  <2>4. CASE PlanMade
    <3>1. cid' = cid /\ pc' \in {"mutate", "write"} /\ work'.lifecycle = control[cid].lifecycle
      BY <2>4 DEF PlanMade
    <3> QED
      BY <1>2, <2>1, <2>2, <3>1 DEF PushInv, CallPushed
  <2> QED
    BY <1>3, <2>3, <2>4, PushPlanEffect
<1>4. ASSUME NEW c \in Classes, Mutate(c) PROVE PushInv'
  <2>1. /\ control' = control /\ FileIds' = FileIds /\ exists' = exists /\ pc = "mutate"
        /\ cid' = cid /\ pc' \in {"mutate", "write"}
    BY <1>4, SameFiles DEF Mutate, disk
  <2>2. FilesPushed'
    BY <1>2, <2>1, OneFilePushed DEF Unpublished
  <2>3. work'.lifecycle = work.lifecycle
    BY <1>4, MutateEffect
  <2> QED
    BY <1>2, <2>1, <2>2, <2>3 DEF PushInv, CallPushed
<1>5. ASSUME NEW c \in Classes, Flush(c) PROVE PushInv'
  <2>1. /\ control' = control /\ platform' = platform /\ exists' = exists /\ unseen' = unseen
        /\ pc' \in {"idle", "flush"}
    BY <1>5 DEF Flush, Return, disk, server
  <2>2. FilesPushed'
    BY <2>1, FilesPushedKept DEF PushInv
  <2> QED
    BY <2>1, <2>2, QuietCall DEF PushInv
<1>6. CASE WriteFile
  <2>1. /\ HasWork /\ HasFile /\ Save(work) /\ journal = 0 /\ pc' \in {"idle", "flush"}
        /\ work.lifecycle \in {"brownfield", "tombstoned"}
    BY <1>6 DEF WriteFile, Return, Inv, CallInv, PushInv, CallPushed
  <2>2. control'[cid] = work /\ FileIds' = {cid} /\ cid # 0
    BY <2>1, OneFile, SavedFile DEF Inv, HasWork, HasFile
  <2>3. FilesPushed'
    BY <2>1, <2>2, OneFilePushed DEF Unpublished
  <2> QED
    BY <2>1, <2>3, QuietCall DEF PushInv
<1> QED
  BY <1>1, <1>3, <1>4, <1>5, <1>6

\* An edit takes its class out of the pushed ones.
LEMMA EditKeepsPush ==
  ASSUME Inv, NamesInv, PushInv, NEW i \in Ids, NEW c \in Classes, EditMade(i, c), Ready,
         i \in FileIds, UNCHANGED <<server, call, unseen>>
  PROVE  PushInv'
<1>1. control[i].id = i /\ FileIds = {i} /\ pc' = "idle"
  BY OneFile DEF Ready, Idle, NamesInv, Inv, FilesInv, call
<1>2. PICK g \in ControlFile :
        /\ Save(g) /\ g.id = i /\ g.lifecycle = control[i].lifecycle
        /\ g.pushed = control[i].pushed \ {c}
        /\ \A t \in Slots : g.attributes[t] = control[i].attributes[t]
                            \/ (t[1] = c /\ g.attributes[t] \in Values)
  BY <1>1 DEF EditMade
<1>3. control'[i] = g /\ FileIds' = {i}
  BY <1>1, <1>2, SavedFile DEF Inv
<1>4. platform' = platform /\ exists' = exists /\ unseen' = unseen
  BY DEF server
<1>5. CASE i = 0
  <2>1. FilesPushed'
    BY <1>1, <1>2, <1>3, <1>4, <1>5 DEF PushInv, FilesPushed
  <2> QED
    BY <1>1, <2>1, QuietCall DEF PushInv
<1>6. CASE i # 0
  <2>1. (i \in exists /\ g.lifecycle \in Unpublished) => Synced(control[i], i)
    BY <1>1, <1>2, <1>6 DEF PushInv, FilesPushed
  <2>2. (i \in exists /\ g.lifecycle \in Unpublished) =>
          \A s \in Slots \ unseen :
            /\ g.attributes[s] = Absent => platform[i][s] = Absent
            /\ s[1] \in g.pushed => g.attributes[s] = platform[i][s]
    BY <1>2, <2>1, Bounds DEF Synced
  <2>3. FilesPushed'
    BY <1>3, <1>4, <1>6, <2>2, OneFilePushed
  <2> QED
    BY <1>1, <2>3, QuietCall DEF PushInv
<1> QED
  BY <1>5, <1>6

LEMMA OthersKeepPush ==
  ASSUME PullsPublished, Inv, NamesInv, PushInv,
         \/ Fail \/ PlatformRefuses
         \/ \E i \in Ids : \/ Pull(i) \/ Tombstone(i) \/ ForeignDelete(i)
                           \/ \E c \in Classes : Promote(i, c)
                           \/ \E s \in Slots, v \in Values :
                                SetLocalEdited(i, s, v) \/ HandEdit(i, s, v) \/ Foreign(i, s, v)
         \/ UNCHANGED vars
  PROVE  PushInv'
<1> USE Bounds
<1>1. CASE Fail \/ PlatformRefuses
  <2>1. /\ control' = control /\ platform' = platform /\ exists' = exists /\ unseen' = unseen
        /\ pc' = "idle"
    BY <1>1 DEF Fail, PlatformRefuses, Return, disk, server, history
  <2>2. FilesPushed'
    BY <2>1, FilesPushedKept DEF PushInv
  <2> QED
    BY <2>1, <2>2, QuietCall DEF PushInv
<1>2. ASSUME NEW i \in Ids, Pull(i) PROVE PushInv'
  <2>1. /\ control' = control /\ FileIds' = FileIds /\ i \in FileIds /\ i # 0 /\ journal = 0
        /\ control[i].lifecycle \in PullLives /\ cid' = i /\ pc' = "write"
    BY <1>2, SameFiles DEF Pull, Ready, disk
  <2>2. control[i] \in ControlFile /\ FileOK(control[i]) /\ control[i].lifecycle \notin Unpublished
    BY <2>1, FileFacts DEF Inv, FilesInv, PullsPublished
  <2>3. control[i].lifecycle \in {"brownfield", "tombstoned"}
    BY <2>2 DEF ControlFile, Lifecycles, Unpublished
  <2>4. work'.lifecycle \in {"brownfield", "tombstoned"}
    <3>1. CASE i \in exists
      <4>1. platform[i] \in Attrs
        BY DEF Inv, TypeOK
      <4>2. work' = Pulled(control[i], platform[i])
        BY <1>2, <3>1 DEF Pull
      <4> QED
        BY <2>2, <4>1, <4>2, PulledFile
    <3>2. CASE i \notin exists
      <4>1. "tombstoned" \in Lifecycles
        BY DEF Lifecycles
      <4>2. work' = [control[i] EXCEPT !.lifecycle = "tombstoned"]
        BY <1>2, <3>2 DEF Pull
      <4> QED
        BY <2>2, <4>1, <4>2, MovedFile
    <3> QED
      BY <3>1, <3>2
  <2>5. FilesPushed'
    BY <2>1, <2>2, OneFile, OneFilePushed
  <2> QED
    BY <2>1, <2>3, <2>4, <2>5 DEF PushInv, CallPushed
<1>3. ASSUME NEW i \in Ids, Tombstone(i) PROVE PushInv'
  <2> DEFINE g == [control[i] EXCEPT !.lifecycle = "tombstoned"]
  <2>1. /\ "tombstoned" \in Lifecycles /\ i \in FileIds /\ Ready /\ platform' = platform
        /\ exists' = exists /\ unseen' = unseen /\ pc' = "idle"
    BY <1>3 DEF Lifecycles, Tombstone, Ready, Idle, call, server, history
  <2>2. control[i] \in ControlFile /\ FileOK(control[i]) /\ control[i].id = i /\ FileIds = {i}
    BY <2>1, FileFacts, OneFile DEF Inv, FilesInv, NamesInv, Ready, Idle
  <2>3. g \in ControlFile /\ g.id = i /\ g.lifecycle = "tombstoned"
    BY <2>1, <2>2, MovedFile
  <2>4. Save(g)
    BY <1>3 DEF Tombstone
  <2> HIDE DEF g
  <2>5. control'[i] = g /\ FileIds' = {i}
    BY <2>2, <2>3, <2>4, SavedFile DEF Inv
  <2>6. FilesPushed'
    <3>1. CASE i = 0
      BY <2>1, <2>2, <2>3, <2>5, <3>1 DEF PushInv, FilesPushed
    <3>2. CASE i # 0
      BY <2>3, <2>5, <3>2, OneFilePushed DEF Unpublished
    <3> QED
      BY <3>1, <3>2
  <2> QED
    BY <2>1, <2>6, QuietCall DEF PushInv
<1>4. ASSUME NEW i \in Ids, ForeignDelete(i) PROVE PushInv'
  <2>1. /\ control' = control /\ FileIds' = FileIds /\ exists' = exists \ {i} /\ unseen' = unseen
        /\ edges' = edges \ {i} /\ platform' = [platform EXCEPT ![i] = AllAbsent] /\ UNCHANGED call
    BY <1>4, SameFiles DEF ForeignDelete, disk, history
  <2>2. /\ \A j \in Ids : j # i => platform'[j] = platform[j]
        /\ \A s \in Slots : platform'[i][s] = Absent
    BY <2>1 DEF Inv, TypeOK, AllAbsent
  <2>3. FileIds \subseteq Ids /\ cid \in Ids
    BY DEF FileIds, Inv, TypeOK
  <2>4. FilesPushed'
    BY <2>1, <2>2, <2>3 DEF PushInv, FilesPushed, Synced
  <2>5. CallPushed'
    BY <2>1, <2>2, <2>3 DEF PushInv, CallPushed, Synced, call
  <2> QED
    BY <2>4, <2>5 DEF PushInv
<1>5. ASSUME NEW i \in Ids, NEW c \in Classes, Promote(i, c) PROVE PushInv'
  <2>1. Ready /\ i \in FileIds /\ UNCHANGED <<server, call, unseen>>
    BY <1>5 DEF Promote
  <2> QED
    BY <1>5, <2>1, PromoteEffect, EditKeepsPush
<1>6. ASSUME NEW i \in Ids, NEW s \in Slots, NEW v \in Values, SetLocalEdited(i, s, v)
      PROVE  PushInv'
  <2>1. Ready /\ i \in FileIds /\ UNCHANGED <<server, call, unseen>>
    BY <1>6 DEF SetLocalEdited
  <2> QED
    BY <1>6, <2>1, SetLocalEditedEffect, SlotClass, EditKeepsPush
<1>7. ASSUME NEW i \in Ids, NEW s \in Slots, NEW v \in Values, HandEdit(i, s, v) PROVE PushInv'
  <2>1. PICK g \in ControlFile : /\ control' = [control EXCEPT ![i] = g] /\ g.id = i /\ i # 0
                                 /\ i \in FileIds /\ g.lifecycle = "brownfield"
    <3>1. i # 0 /\ i \in FileIds
          /\ \E g \in ControlFile : /\ control' = [control EXCEPT ![i] = g]
                                   /\ g.id = i /\ g.lifecycle = "brownfield"
      BY <1>7, HandEditEffect
    <3> QED
      BY <3>1
  <2>2. Save(g)
    BY <2>1 DEF Save
  <2>3. journal = 0 /\ pc' = "idle"
    BY <1>7 DEF HandEdit, Ready, Idle, call
  <2>4. FileIds = {i}
    BY <2>1, <2>3, OneFile
  <2>5. control'[i] = g /\ FileIds' = {i}
    BY <2>1, <2>2, <2>4, SavedFile DEF Inv
  <2>6. FilesPushed'
    BY <2>1, <2>5, OneFilePushed DEF Unpublished
  <2> QED
    BY <2>3, <2>6, QuietCall DEF PushInv
<1>8. ASSUME NEW i \in Ids, NEW t \in Slots, NEW v \in Values, Foreign(i, t, v) PROVE PushInv'
  <2>1. /\ control' = control /\ FileIds' = FileIds /\ exists' = exists /\ edges' = edges
        /\ unseen' = unseen \union {t} /\ platform' = [platform EXCEPT ![i][t] = v] /\ UNCHANGED call
    BY <1>8, SameFiles DEF Foreign, disk
  <2>2. \A j \in Ids, s \in Slots : s # t => platform'[j][s] = platform[j][s]
    BY <2>1 DEF Inv, TypeOK, Attrs
  <2>3. FileIds \subseteq Ids /\ cid \in Ids
    BY DEF FileIds, Inv, TypeOK
  <2>4. FilesPushed'
    BY <2>1, <2>2, <2>3 DEF PushInv, FilesPushed, Synced
  <2>5. CallPushed'
    BY <2>1, <2>2, <2>3 DEF PushInv, CallPushed, Synced, call
  <2> QED
    BY <2>4, <2>5 DEF PushInv
<1>9. CASE UNCHANGED vars
  <2>1. FilesPushed'
    BY <1>9, FilesPushedKept DEF PushInv, vars, disk, server, history
  <2>2. CallPushed'
    BY <1>9 DEF PushInv, CallPushed, Synced, vars, disk, server, call, history
  <2> QED
    BY <2>1, <2>2 DEF PushInv
<1> QED
  BY <1>1, <1>2, <1>3, <1>4, <1>5, <1>6, <1>7, <1>8, <1>9

\* Unless a journal was deleted, what a file records as pushed is on the platform.
THEOREM PushesHold == PullsPublished /\ Spec => []CompleteInv
<1> SUFFICES ASSUME PullsPublished PROVE Spec => []CompleteInv
  OBVIOUS
<1>1. Init => CompleteInv
  <2> SUFFICES ASSUME Init PROVE PushInv
    BY DEF CompleteInv
  <2>1. control[0] = NewControl /\ FileIds = {0}
    BY NewFile, FileAssumption, Bounds DEF Init, FileIds
  <2>2. control[0].pushed = {}
    BY <2>1 DEF NewControl
  <2>3. FilesPushed
    BY <2>1, <2>2 DEF Init, FilesPushed, AllAbsent
  <2>4. CallPushed
    BY DEF Init, CallPushed
  <2> QED
    BY <2>3, <2>4 DEF PushInv
<1>2. Inv /\ RefsInv /\ CompleteInv /\ [Next]_vars => CompleteInv'
  <2> SUFFICES ASSUME Inv, RefsInv, CompleteInv, [Next]_vars, ~cleared' PROVE PushInv'
    BY DEF CompleteInv
  <2>1. ~cleared /\ NamesInv /\ PushInv
    BY ClearedStays DEF RefsInv, CompleteInv
  <2>2. ~ClearWal
    BY DEF ClearWal
  <2> QED
    BY <2>1, <2>2, ReplayKeepsPush, GreenfieldKeepsPush, BrownfieldKeepsPush, OthersKeepPush
       DEF Next, CallStep
<1> QED
  BY <1>1, <1>2, TypesAndFiles, NamesHold, PTL DEF Spec

\* Only Step D makes a partially-pushed file a brownfield one.
LEMMA OnlyFinalise ==
  ASSUME Inv, NamesInv, PushInv, [Next]_vars, ~ClearWal, NEW i \in FileIds,
         control'[i] # NoFile, control[i].lifecycle = "partially-pushed",
         control'[i].lifecycle = "brownfield"
  PROVE  Finalise /\ i = cid /\ Classes \subseteq control[i].pushed
<1> USE Bounds
<1>0. i \in Ids /\ i # 0 /\ control[i] \in ControlFile /\ control' # control
  BY FileFacts DEF Inv, FilesInv
<1>1. ASSUME NEW g \in ControlFile, Save(g), g.lifecycle = "brownfield" => g.id # i PROVE FALSE
  BY <1>0, <1>1, SavedFile DEF Inv
<1>2. CASE Replay
  <2>1. CASE BeginReplay \/ RewriteDoc \/ UnlinkJournal
    BY <1>0, <2>1 DEF BeginReplay, RewriteDoc, UnlinkJournal, disk
  <2>2. CASE RewriteControl
    BY <1>0, <2>2, RewriteControlEffect
  <2>3. CASE Rename
    <3>1. CASE i = journal
      BY <1>0, <2>3, <3>1, RenameEffect
    <3>2. CASE i # journal
      BY <1>0, <2>3, <3>2, RenameEffect
    <3> QED
      BY <3>1, <3>2
  <2> QED
    BY <1>2, <2>1, <2>2, <2>3 DEF Replay
<1>3. CASE CallStep
  <2>1. CASE CreateControl \/ AppendOperation \/ AssignEdges \/ PlatformRefuses
    BY <1>0, <2>1 DEF CreateControl, AppendOperation, AssignEdges, PlatformRefuses, disk
  <2>2. CASE \E c \in Classes : SetAttributes(c) \/ Mutate(c) \/ Flush(c)
    BY <1>0, <2>2 DEF SetAttributes, Mutate, Flush, disk
  <2>3. CASE \E fetched \in BOOLEAN : PushPlan(fetched)
    BY <1>0, <2>3 DEF PushPlan, disk
  <2>4. CASE FlipLifecycle
    <3> DEFINE g == [work EXCEPT !.lifecycle = "partially-pushed"]
    <3>1. "partially-pushed" \in Lifecycles /\ cid \in Ids /\ HasWork /\ Save(g)
      BY <2>4 DEF Lifecycles, Inv, TypeOK, CallInv, FlipLifecycle
    <3>2. g \in ControlFile /\ g.lifecycle = "partially-pushed"
      BY <3>1, MovedFile DEF HasWork
    <3> HIDE DEF g
    <3> QED
      BY <1>1, <3>1, <3>2
  <2>5. CASE RecordAttributes
    <3>1. HasWork /\ Save(work) /\ work.lifecycle = "partially-pushed"
      BY <2>5 DEF RecordAttributes, Inv, CallInv, PushInv, CallPushed
    <3> QED
      BY <1>1, <3>1 DEF HasWork
  <2>6. CASE WriteFile
    <3>1. HasWork /\ Save(work) /\ control[cid].lifecycle # "partially-pushed"
      BY <2>6 DEF WriteFile, Inv, CallInv, PushInv, CallPushed
    <3> QED
      BY <1>1, <3>1 DEF HasWork
  <2>7. CASE Finalise
    <3> DEFINE g == [control[cid] EXCEPT !.lifecycle = "brownfield"]
    <3>1. /\ HasFile /\ control[cid] \in ControlFile /\ FileOK(control[cid])
          /\ "brownfield" \in Lifecycles /\ cid \in Ids
      BY <2>7, FileFacts DEF Finalise, Inv, CallInv, FilesInv, HasFile, Lifecycles, TypeOK
    <3>2. g \in ControlFile /\ g.id = cid
      BY <3>1, MovedFile DEF HasFile
    <3>3. Save(g) /\ Classes \subseteq control[cid].pushed
      BY <1>0, <2>7 DEF Finalise
    <3> HIDE DEF g
    <3> QED
      BY <1>1, <2>7, <3>2, <3>3
  <2> QED
    BY <1>3, <2>1, <2>2, <2>3, <2>4, <2>5, <2>6, <2>7 DEF CallStep
<1>4. CASE Fail \/ UNCHANGED vars
  BY <1>0, <1>4 DEF Fail, vars, disk
<1>5. ASSUME NEW j \in Ids,
             StartGreenfield(j) \/ StartBrownfield(j) \/ Pull(j) \/ ForeignDelete(j)
      PROVE  FALSE
  BY <1>0, <1>5 DEF StartGreenfield, StartBrownfield, Pull, ForeignDelete, disk
<1>6. ASSUME NEW j \in Ids, Tombstone(j) PROVE FALSE
  <2> DEFINE g == [control[j] EXCEPT !.lifecycle = "tombstoned"]
  <2>1. "tombstoned" \in Lifecycles /\ j \in FileIds /\ Save(g)
    BY <1>6 DEF Lifecycles, Tombstone
  <2>2. control[j] \in ControlFile /\ FileOK(control[j])
    BY <2>1, FileFacts DEF Inv, FilesInv
  <2>3. g \in ControlFile /\ g.lifecycle = "tombstoned"
    BY <2>1, <2>2, MovedFile
  <2> HIDE DEF g
  <2> QED
    BY <1>1, <2>1, <2>3
<1>7. ASSUME NEW j \in Ids, NEW c \in Classes, EditMade(j, c), Ready, j \in FileIds PROVE FALSE
  <2>1. PICK g \in ControlFile : Save(g) /\ g.id = control[j].id
                                 /\ g.lifecycle = control[j].lifecycle
    BY <1>7 DEF EditMade
  <2>2. control[j].id = j
    BY <1>7 DEF Ready, Idle, NamesInv, Inv, FilesInv
  <2> QED
    BY <1>1, <2>1, <2>2
<1>8. ASSUME NEW j \in Ids, NEW c \in Classes, Promote(j, c) PROVE FALSE
  BY <1>7, <1>8, PromoteEffect DEF Promote
<1>9. ASSUME NEW j \in Ids, NEW s \in Slots, NEW v \in Values, SetLocalEdited(j, s, v) PROVE FALSE
  BY <1>7, <1>9, SetLocalEditedEffect, SlotClass DEF SetLocalEdited
<1>10. ASSUME NEW j \in Ids, NEW s \in Slots, NEW v \in Values, HandEdit(j, s, v) PROVE FALSE
  <2>1. PICK g \in ControlFile : control' = [control EXCEPT ![j] = g] /\ g.id = j
                                 /\ control[j].lifecycle = "brownfield"
    BY <1>10, HandEditEffect
  <2>2. Save(g)
    BY <2>1 DEF Save
  <2> QED
    BY <1>1, <2>1, <2>2
<1>11. ASSUME NEW j \in Ids, NEW s \in Slots, NEW v \in Values, Foreign(j, s, v) PROVE FALSE
  BY <1>0, <1>11 DEF Foreign, disk
<1> QED
  BY <1>2, <1>3, <1>4, <1>5, <1>6, <1>8, <1>9, <1>10, <1>11 DEF Next

\* A Control that becomes brownfield by its push has its SUPPORTS edges and all its
\* attributes on the platform, for any attributes and whatever calls died before, when
\* no file is pulled before it is published.
THEOREM BrownfieldIsCompleteHolds == PullsPublished /\ Spec => BrownfieldIsComplete
<1> SUFFICES ASSUME PullsPublished PROVE Spec => BrownfieldIsComplete
  OBVIOUS
<1> DEFINE Complete ==
      \A i \in Ids :
        (/\ control[i] # NoFile /\ control'[i] # NoFile /\ i \in exists /\ ~cleared
         /\ control[i].lifecycle = "partially-pushed"
         /\ control'[i].lifecycle = "brownfield") =>
            /\ i \in edges
            /\ \A s \in Slots \ unseen : control'[i].attributes[s] = platform[i][s]
<1>1. Inv /\ RefsInv /\ CompleteInv /\ [Next]_vars => Complete
  <2> SUFFICES ASSUME Inv, RefsInv, CompleteInv, [Next]_vars, NEW i \in Ids,
                      control[i] # NoFile, control'[i] # NoFile, i \in exists, ~cleared,
                      control[i].lifecycle = "partially-pushed",
                      control'[i].lifecycle = "brownfield"
               PROVE  /\ i \in edges
                      /\ \A s \in Slots \ unseen : control'[i].attributes[s] = platform[i][s]
    OBVIOUS
  <2>1. i \in FileIds /\ NamesInv /\ PushInv
    BY DEF FileIds, RefsInv, CompleteInv
  <2>2. ~ClearWal
    BY DEF ClearWal
  <2>3. Finalise /\ i = cid /\ Classes \subseteq control[i].pushed
    BY <2>1, <2>2, OnlyFinalise
  <2>4. i \in edges /\ i # 0
    BY <2>1, <2>3 DEF Finalise, PushInv, CallPushed, Inv, CallInv, HasFile
  <2>5. Synced(control[i], i)
    BY <2>1, <2>4 DEF PushInv, FilesPushed, Unpublished
  <2>6. control[i] \in ControlFile /\ FileOK(control[i]) /\ control[i].id = i
    BY <2>1, <2>4, FileFacts DEF Inv, FilesInv
  <2>7. control'[i].attributes = control[i].attributes
    <3> DEFINE g == [control[i] EXCEPT !.lifecycle = "brownfield"]
    <3>1. "brownfield" \in Lifecycles /\ Save(g)
      BY <2>3 DEF Lifecycles, Finalise
    <3>2. g \in ControlFile /\ g.id = i /\ g.attributes = control[i].attributes
      BY <2>6, <3>1, MovedFile
    <3> HIDE DEF g
    <3> QED
      BY <3>1, <3>2, SavedFile DEF Inv
  <2> QED
    BY <2>3, <2>4, <2>5, <2>7, SlotClass DEF Synced
<1>2. BrownfieldIsComplete <=> [][Complete]_vars
  BY DEF BrownfieldIsComplete
<1>3. [Next]_vars /\ Inv /\ RefsInv /\ CompleteInv => [Complete]_vars
  BY <1>1
<1> HIDE DEF Complete
<1> QED
  BY <1>2, <1>3, TypesAndFiles, NamesHold, PushesHold, PTL DEF Spec

-----------------------------------------------------------------------------
(* A retried push does not conflict with itself *)

\* The operator pulls published Controls only, and none that is tombstoned.
PullsBrownfield == PullLives \subseteq {"brownfield"}

LEMMA CountsGrow ==
  ASSUME Inv, [Next]_vars, foreign' = 0, edits' <= 1
  PROVE  foreign = 0 /\ edits <= 1
<1>0. foreign \in Nat /\ edits \in Nat
  BY Bounds DEF Inv, TypeOK
<1>1. CASE Replay
  BY <1>1 DEF Replay, BeginReplay, RewriteDoc, RewriteControl, Rename, UnlinkJournal, counts
<1>2. CASE CallStep
  <2>1. CASE CreateControl \/ AppendOperation \/ FlipLifecycle \/ RecordAttributes \/ AssignEdges
    BY <2>1 DEF CreateControl, AppendOperation, FlipLifecycle, RecordAttributes, AssignEdges, counts
  <2>2. CASE Finalise \/ WriteFile \/ PlatformRefuses
    BY <2>2 DEF Finalise, WriteFile, PlatformRefuses, counts
  <2>3. CASE \E c \in Classes : SetAttributes(c) \/ Mutate(c) \/ Flush(c)
    BY <2>3 DEF SetAttributes, Mutate, Flush, counts
  <2>4. CASE \E fetched \in BOOLEAN : PushPlan(fetched)
    BY <2>4 DEF PushPlan
  <2> QED
    BY <1>2, <2>1, <2>2, <2>3, <2>4 DEF CallStep
<1>3. CASE ClearWal \/ Fail \/ UNCHANGED vars
  BY <1>3 DEF ClearWal, Fail, vars, counts
<1>4. ASSUME NEW i \in Ids,
             \/ StartGreenfield(i) \/ StartBrownfield(i) \/ Pull(i) \/ Tombstone(i)
             \/ \E c \in Classes : Promote(i, c)
      PROVE  foreign = 0 /\ edits <= 1
  BY <1>4 DEF StartGreenfield, StartBrownfield, Pull, Tombstone, Promote, counts
<1>5. ASSUME NEW i \in Ids, ForeignDelete(i) PROVE FALSE
  BY <1>0, <1>5 DEF ForeignDelete
<1>6. ASSUME NEW i \in Ids, NEW s \in Slots, NEW v \in Values, Foreign(i, s, v) PROVE FALSE
  BY <1>0, <1>6 DEF Foreign
<1>7. ASSUME NEW i \in Ids, NEW s \in Slots, NEW v \in Values,
             SetLocalEdited(i, s, v) \/ HandEdit(i, s, v)
      PROVE  foreign = 0 /\ edits <= 1
  <2>1. foreign' = foreign /\ edits' = edits + 1
    BY <1>7 DEF SetLocalEdited, HandEdit
  <2> QED
    BY <1>0, <2>1
<1> QED
  BY <1>1, <1>2, <1>3, <1>4, <1>5, <1>6, <1>7 DEF Next

LEMMA FilesQuietKept ==
  ASSUME FilesQuiet, control' = control, platform' = platform, exists' = exists, unseen' = unseen,
         edits' = edits, journal' = journal, pc' # "append"
  PROVE  FilesQuiet'
BY SameFiles DEF FilesQuiet

LEMMA OneFileQuiet ==
  ASSUME NEW i, FileIds' = {i}, i # 0, unseen' = {}, journal' = 0, pc' # "append", i \in exists',
         Agrees(control'[i], platform'[i], edits')
  PROVE  FilesQuiet'
BY DEF FilesQuiet

LEMMA CallAtRest ==
  ASSUME pc' \notin {"flip", "record", "mutate", "write", "review"}
  PROVE  CallQuiet'
BY DEF CallQuiet

\* A fresh file agrees with its new Control.
LEMMA FreshAgrees ==
  ASSUME NEW f, NEW p, NEW n, Fresh(f, n), f.lifecycle = "greenfield"
  PROVE  Agrees(f, p, n)
BY DEF Fresh, Agrees

\* Agreement does not depend on how far the file is published, up to Step D.
LEMMA AgreesMoved ==
  ASSUME NEW f, NEW g, NEW p, NEW n, Agrees(f, p, n),
         g.pushed = f.pushed, g.pendingEdit = f.pendingEdit, g.snapshot = f.snapshot,
         g.platformAttributes = f.platformAttributes, g.previous = f.previous,
         g.attributes = f.attributes,
         \/ g.lifecycle = "tombstoned"
         \/ g.lifecycle = "partially-pushed" /\ f.lifecycle \in Unpublished
  PROVE  Agrees(g, p, n)
BY DEF Agrees, Unpublished

LEMMA ReplayKeepsQuiet == ASSUME Inv, NamesInv, QuietInv, Replay PROVE QuietInv'
<1> USE Bounds
<1>1. CASE BeginReplay \/ RewriteDoc
  <2>1. /\ control' = control /\ platform' = platform /\ exists' = exists /\ unseen' = unseen
        /\ edits' = edits /\ journal' = journal /\ pc' = "replay"
    BY <1>1 DEF BeginReplay, RewriteDoc, disk, server, history, counts
  <2> QED
    BY <2>1, FilesQuietKept, CallAtRest DEF QuietInv
<1>2. CASE RewriteControl
  <2>1. /\ platform' = platform /\ exists' = exists /\ unseen' = unseen
        /\ edits' = edits /\ journal' = journal /\ pc' = "replay"
    BY <1>2 DEF RewriteControl, server, history, counts
  <2>2. /\ FileIds' = FileIds /\ \A i \in FileIds \ {0} : control'[i] = control[i]
        /\ 0 \in FileIds => /\ control'[0].lifecycle = control[0].lifecycle
                            /\ control'[0].pushed = control[0].pushed
                            /\ control'[0].snapshot = control[0].snapshot
                            /\ control'[0].previous = control[0].previous
    BY <1>2, RewriteControlEffect DEF FileIds
  <2>3. 0 \in FileIds => Fresh(control'[0], edits)
    BY <2>2 DEF QuietInv, FilesQuiet, Fresh
  <2>4. FilesQuiet'
    BY <2>1, <2>2, <2>3 DEF QuietInv, FilesQuiet
  <2> QED
    BY <2>1, <2>4, CallAtRest DEF QuietInv
<1>3. CASE Rename
  <2>1. /\ platform' = platform /\ exists' = exists /\ unseen' = unseen
        /\ edits' = edits /\ journal' = journal /\ pc' = "replay" /\ journal # 0
    BY <1>3 DEF Rename, server, history, counts, Inv, ReplayInv
  <2>2. CASE 0 \notin FileIds
    BY <1>3, <2>1, <2>2, RenameEffect, FilesQuietKept, CallAtRest DEF QuietInv
  <2>3. CASE 0 \in FileIds
    <3>1. /\ control'[journal] = control[0] /\ FileIds' = {journal}
          /\ control[0].lifecycle = "greenfield"
      BY <1>3, <2>1, <2>3, RenameEffect DEF NamesInv, Rewriting, Inv, CallInv
    <3>2. Agrees(control[0], platform[journal], edits) /\ journal \in exists /\ unseen = {}
      BY <2>1, <2>3, <3>1, FreshAgrees DEF QuietInv, FilesQuiet
    <3>3. FilesQuiet'
      BY <2>1, <3>1, <3>2 DEF FilesQuiet
    <3> QED
      BY <2>1, <3>3, CallAtRest DEF QuietInv
  <2> QED
    BY <2>2, <2>3
<1>4. CASE UnlinkJournal
  <2>1. /\ control' = control /\ platform' = platform /\ exists' = exists /\ unseen' = unseen
        /\ edits' = edits /\ journal' = 0 /\ cid' = cid /\ pc = "replay" /\ at = Len(Docs) + 3
        /\ \/ pc' = "idle"
           \/ pc' = "flip" /\ work' = control[cid] /\ cid # 0
    BY <1>4 DEF UnlinkJournal, server, history, counts
  <2>2. FilesQuiet'
    BY <2>1, SameFiles DEF QuietInv, FilesQuiet
  <2>3. CallQuiet'
    <3>1. CASE pc' = "idle"
      BY <3>1, CallAtRest
    <3>2. CASE pc' = "flip" /\ work' = control[cid] /\ cid # 0
      <4>1. cid \in FileIds
        BY <2>1, <3>2 DEF Inv, ReplayInv, HasFile
      <4> QED
        BY <2>1, <3>2, <4>1 DEF CallQuiet, QuietInv, FilesQuiet
    <3> QED
      BY <2>1, <3>1, <3>2
  <2> QED
    BY <2>2, <2>3 DEF QuietInv
<1> QED
  BY <1>1, <1>2, <1>3, <1>4 DEF Replay

LEMMA GreenfieldKeepsQuiet ==
  ASSUME Inv, NamesInv, PushInv, QuietInv,
         \/ \E i \in Ids : StartGreenfield(i)
         \/ CreateControl \/ AppendOperation \/ FlipLifecycle
         \/ \E c \in Classes : SetAttributes(c)
         \/ RecordAttributes \/ AssignEdges \/ Finalise
  PROVE  QuietInv'
<1> USE Bounds
<1>1. ASSUME NEW i \in Ids, StartGreenfield(i) PROVE QuietInv'
  <2>1. /\ control' = control /\ platform' = platform /\ exists' = exists /\ unseen' = unseen
        /\ edits' = edits /\ journal' = journal /\ i \in FileIds /\ pc = "idle" /\ journal = 0
    BY <1>1 DEF StartGreenfield, Ready, Idle, disk, server, history, counts
  <2>2. control[i].id = i /\ cid' = i
    BY <1>1, <2>1 DEF StartGreenfield, NamesInv, Inv, FilesInv
  <2>3. \/ pc' \in {"create", "attributes"}
        \/ pc' = "flip" /\ work' = control[i] /\ i # 0
    BY <1>1, <2>2 DEF StartGreenfield, Resumes
  <2>4. FilesQuiet'
    BY <2>1, <2>3, FilesQuietKept DEF QuietInv
  <2>5. CallQuiet'
    BY <2>1, <2>2, <2>3 DEF CallQuiet, QuietInv, FilesQuiet
  <2> QED
    BY <2>4, <2>5 DEF QuietInv
<1>2. CASE CreateControl
  <2>1. /\ control' = control /\ platform' = platform /\ unseen' = unseen /\ FileIds' = FileIds
        /\ edits' = edits /\ journal' = journal /\ pc' = "append" /\ cid' \in exists'
        /\ exists \subseteq exists'
    BY <1>2, SameFiles DEF CreateControl, disk, history, counts
  <2>2. FilesQuiet'
    BY <2>1 DEF QuietInv, FilesQuiet
  <2> QED
    BY <2>1, <2>2, CallAtRest DEF QuietInv
<1>3. CASE AppendOperation
  <2>1. /\ control' = control /\ platform' = platform /\ exists' = exists /\ unseen' = unseen
        /\ edits' = edits /\ journal' = cid /\ pc' = "replay" /\ FileIds' = FileIds /\ pc = "append"
    BY <1>3, SameFiles DEF AppendOperation, server, history, counts
  <2>2. FilesQuiet'
    BY <2>1 DEF QuietInv, FilesQuiet
  <2> QED
    BY <2>1, <2>2, CallAtRest DEF QuietInv
<1>4. CASE FlipLifecycle
  <2> DEFINE g == [work EXCEPT !.lifecycle = "partially-pushed"]
  <2>0. "partially-pushed" \in Lifecycles /\ cid \in Ids
    BY DEF Lifecycles, Inv, TypeOK
  <2>1. /\ HasWork /\ cid \in FileIds /\ platform' = platform /\ exists' = exists
        /\ unseen' = unseen /\ pc = "flip" /\ pc' = "attributes" /\ edits' = edits
        /\ journal' = journal /\ work.lifecycle \in Unpublished /\ Agrees(work, platform[cid], edits)
    BY <1>4 DEF FlipLifecycle, server, history, counts, Inv, CallInv, NamesInv, PushInv, CallPushed,
                QuietInv, CallQuiet
  <2>2. /\ g \in ControlFile /\ g.id = cid /\ g.lifecycle = "partially-pushed" /\ cid # 0
        /\ g.attributes = work.attributes /\ g.pushed = work.pushed
        /\ g.pendingEdit = work.pendingEdit /\ g.snapshot = work.snapshot
        /\ g.previous = work.previous /\ g.platformAttributes = work.platformAttributes
    BY <2>0, <2>1, MovedFile DEF HasWork
  <2>3. Save(g)
    BY <1>4 DEF FlipLifecycle
  <2>4. FileIds = {cid} /\ journal = 0 /\ unseen = {} /\ cid \in exists
    BY <2>1, <2>2, OneFile, CallHasNoJournal DEF QuietInv, FilesQuiet
  <2> HIDE DEF g
  <2>5. control'[cid] = g /\ FileIds' = {cid}
    BY <2>2, <2>3, <2>4, SavedFile DEF Inv
  <2>6. Agrees(g, platform[cid], edits)
    BY <2>1, <2>2, AgreesMoved
  <2>7. FilesQuiet'
    BY <2>1, <2>2, <2>4, <2>5, <2>6, OneFileQuiet
  <2> QED
    BY <2>1, <2>7, CallAtRest DEF QuietInv
<1>5. ASSUME NEW c \in Classes, SetAttributes(c) PROVE QuietInv'
  <2>1. /\ control' = control /\ exists' = exists /\ FileIds' = FileIds /\ cid \in exists
        /\ pc = "attributes" /\ pc' = "record" /\ cid' = cid /\ cid \in FileIds /\ cid # 0
        /\ control[cid].lifecycle = "partially-pushed" /\ journal' = journal /\ edits' = edits
    BY <1>5, SameFiles DEF SetAttributes, disk, counts, PushInv, CallPushed, Inv, CallInv, HasFile
  <2>2. FileIds = {cid} /\ journal = 0 /\ unseen = {}
    BY <2>1, OneFile, CallHasNoJournal DEF QuietInv, FilesQuiet
  <2> DEFINE f == control[cid]
             p == platform[cid]
  <2>3. /\ \A s \in Slots : platform'[cid][s] = IF s[1] = c /\ f.attributes[s] # Absent
                                                THEN f.attributes[s] ELSE p[s]
        /\ unseen' \subseteq unseen
        /\ work'.lifecycle = f.lifecycle /\ work'.attributes = f.attributes
        /\ work'.pendingEdit = f.pendingEdit \ {c} /\ work'.pushed = f.pushed \union {c}
        /\ work'.snapshot = f.snapshot \union {c}
        /\ \A s \in Slots :
             /\ work'.platformAttributes[s] = IF s[1] = c THEN f.attributes[s]
                                                          ELSE f.platformAttributes[s]
             /\ work'.previous[s] = IF s[1] = c THEN NotRecorded ELSE f.previous[s]
    BY <1>5, SetAttributesEffect
  <2>4. \A s \in Slots : /\ f.attributes[s] = Absent => p[s] = Absent
                         /\ s[1] \in f.pushed => f.attributes[s] = p[s]
    BY <2>1, <2>2 DEF PushInv, FilesPushed, Unpublished, Synced
  <2>5. Agrees(f, p, edits)
    BY <2>1, <2>2 DEF QuietInv, FilesQuiet
  <2>6. \A s \in Slots : s[1] \in f.snapshot \ f.pendingEdit => platform'[cid][s] = p[s]
    BY <2>1, <2>3, <2>4, <2>5 DEF Agrees, Unpublished
  <2>7. \A s \in Slots : s[1] = c => platform'[cid][s] = f.attributes[s]
    BY <2>3, <2>4
  <2>8. \A s \in Slots : s[1] # c => platform'[cid][s] = p[s]
    BY <2>3
  <2>9. Agrees(f, platform'[cid], edits)
    BY <2>1, <2>5, <2>6 DEF Agrees
  <2>10. Agrees(work', platform'[cid], edits)
    BY <2>1, <2>3, <2>5, <2>7, <2>8 DEF Agrees
  <2>11. FilesQuiet'
    BY <2>1, <2>2, <2>3, <2>9, OneFileQuiet
  <2> QED
    BY <2>1, <2>10, <2>11 DEF QuietInv, CallQuiet
<1>6. CASE RecordAttributes
  <2>1. /\ HasWork /\ HasFile /\ Save(work) /\ platform' = platform /\ exists' = exists
        /\ unseen' = unseen /\ journal' = journal /\ edits' = edits /\ pc = "record"
        /\ pc' = "attributes" /\ Agrees(work, platform[cid], edits)
    BY <1>6 DEF RecordAttributes, server, history, counts, Inv, CallInv, QuietInv, CallQuiet
  <2>2. FileIds = {cid} /\ journal = 0 /\ unseen = {} /\ cid \in exists
    BY <2>1, OneFile, CallHasNoJournal DEF HasFile, QuietInv, FilesQuiet
  <2>3. control'[cid] = work /\ FileIds' = {cid} /\ cid # 0
    BY <2>1, <2>2, SavedFile DEF Inv, HasWork
  <2>4. FilesQuiet'
    BY <2>1, <2>2, <2>3, OneFileQuiet
  <2> QED
    BY <2>1, <2>4, CallAtRest DEF QuietInv
<1>7. CASE AssignEdges
  <2>1. /\ control' = control /\ platform' = platform /\ exists' = exists /\ unseen' = unseen
        /\ edits' = edits /\ journal' = journal /\ pc' = "finalise"
    BY <1>7 DEF AssignEdges, disk, history, counts
  <2> QED
    BY <2>1, FilesQuietKept, CallAtRest DEF QuietInv
<1>8. CASE Finalise
  <2> DEFINE f == control[cid]
             g == [f EXCEPT !.lifecycle = "brownfield"]
  <2>0. "brownfield" \in Lifecycles /\ cid \in Ids
    BY DEF Lifecycles, Inv, TypeOK
  <2>1. /\ HasFile /\ f \in ControlFile /\ FileOK(f)
        /\ platform' = platform /\ exists' = exists /\ unseen' = unseen /\ pc' = "idle"
        /\ pc = "finalise" /\ edits' = edits /\ journal' = journal
    BY <1>8, FileFacts DEF Finalise, Return, server, history, counts, Inv, CallInv, FilesInv, HasFile
  <2>2. /\ g \in ControlFile /\ g.id = cid /\ g.lifecycle = "brownfield" /\ cid # 0
        /\ g.attributes = f.attributes /\ g.pushed = f.pushed
        /\ g.pendingEdit = f.pendingEdit /\ g.snapshot = f.snapshot
        /\ g.previous = f.previous /\ g.platformAttributes = f.platformAttributes
    BY <2>0, <2>1, MovedFile DEF HasFile
  <2>3. control' = control \/ (Save(g) /\ Classes \subseteq f.pushed)
    BY <1>8 DEF Finalise
  <2> HIDE DEF g
  <2>4. FilesQuiet'
    <3>1. CASE control' = control
      BY <2>1, <3>1, FilesQuietKept DEF QuietInv
    <3>2. CASE Save(g) /\ Classes \subseteq f.pushed
      <4>1. FileIds = {cid} /\ journal = 0 /\ unseen = {} /\ cid \in exists
        BY <2>1, OneFile, CallHasNoJournal DEF HasFile, QuietInv, FilesQuiet
      <4>2. control'[cid] = g /\ FileIds' = {cid}
        BY <2>2, <3>2, <4>1, SavedFile DEF Inv
      <4>3. Agrees(f, platform[cid], edits)
        BY <2>2, <4>1 DEF QuietInv, FilesQuiet
      <4>4. f.lifecycle = "partially-pushed" /\ \A s \in Slots : f.attributes[s] = platform[cid][s]
        BY <2>1, <2>2, <3>2, <4>1, SlotClass DEF PushInv, FilesPushed, CallPushed, Unpublished, Synced
      <4>5. f.pendingEdit = {} /\ \A s \in Slots : f.previous[s] = NotRecorded
        <5>1. f.pendingEdit \subseteq Classes
          BY <2>1 DEF ControlFile
        <5>2. f.pendingEdit = {}
          BY <3>2, <4>3, <5>1 DEF Agrees
        <5> QED
          BY <2>1, <5>2 DEF FileOK
      <4>6. Agrees(g, platform[cid], edits)
        BY <2>2, <4>3, <4>4, <4>5 DEF Agrees, Unpublished
      <4> QED
        BY <2>1, <2>2, <4>1, <4>2, <4>6, OneFileQuiet
    <3> QED
      BY <2>3, <3>1, <3>2
  <2> QED
    BY <2>1, <2>4, CallAtRest DEF QuietInv
<1> QED
  BY <1>1, <1>2, <1>3, <1>4, <1>5, <1>6, <1>7, <1>8

\* Nothing conflicts while nobody else writes.
LEMMA NoConflicts ==
  ASSUME NEW f \in ControlFile, NEW p, NEW n, Agrees(f, p, n), f.lifecycle = "brownfield"
  PROVE  Conflicts(f, p) = {}
<1>1. f.previous \in [Slots -> Values \union {NotRecorded, FirstWrite}]
  BY DEF ControlFile
<1> SUFFICES ASSUME NEW s \in Conflicts(f, p) PROVE FALSE
  OBVIOUS
<1>2. s \in Prior(f) /\ p[s] # f.previous[s] /\ s \notin Applied(f, p)
  BY DEF Conflicts
<1>3. s \in Slots /\ f.previous[s] \in Values /\ p[s] # f.attributes[s]
  BY <1>1, <1>2 DEF Applied, Prior, Considered, Recorded
<1> QED
  BY <1>2, <1>3 DEF Agrees

\* Steps B to D of such a push keep the attributes, and send them or nothing.
LEMMA QuietPlan ==
  ASSUME Inv, PushInv, QuietInv, NEW fetched \in BOOLEAN, PushPlan(fetched),
         ~(Return /\ UNCHANGED <<unseen, late>>)
  PROVE  LET f == control[cid]
             p == platform[cid]
         IN  /\ f \in ControlFile /\ f.lifecycle = "brownfield" /\ cid \in exists
             /\ work'.attributes = f.attributes
             /\ \A s \in Slots : outbound'[s] \in {NoPush, f.attributes[s]}
             /\ \A s \in Slots : s[1] \in f.pendingEdit => work'.platformAttributes[s] = p[s]
             /\ Agrees(f, p, edits) /\ Agrees(work', p, edits)
<1> USE Bounds
<1> DEFINE f == control[cid]
           p == platform[cid]
           seen == Seen(fetched)
<1>1. HasFile /\ pc = "review" /\ f.lifecycle = "brownfield" /\ live = p
  BY DEF Inv, CallInv, PushPlan, PushInv, CallPushed, QuietInv, CallQuiet
<1>2. f \in ControlFile /\ FileOK(f)
  BY <1>1, FileFacts DEF HasFile, Inv, FilesInv
<1>3. cid \in exists /\ Agrees(f, p, edits)
  BY <1>1 DEF HasFile, QuietInv, FilesQuiet
<1>4. seen = p
  BY <1>1 DEF Seen
<1>5. p \in Attrs
  BY DEF Inv, TypeOK
<1>6. Conflicts(f, seen) = {}
  BY <1>1, <1>2, <1>3, <1>4, NoConflicts
<1> HIDE DEF f
<1> DEFINE choice == [s \in Conflicts(f, seen) |-> decision[s]]
<1>7. PICK merged \in IF "merge" \in Choices THEN Values ELSE {NoPush},
           last \in SUBSET Conflicts(f, seen) :
        LET sent == Outbound(f, seen, choice, merged)
        IN  outbound' = sent /\ work' = Planned(f, seen, sent, last)
  BY DEF PushPlan, f
<1> DEFINE sent == Outbound(f, seen, choice, merged)
<1>8. DOMAIN choice = {} /\ last = {}
  BY <1>6
<1>9. \A s \in Slots : sent[s] \in {NoPush, f.attributes[s]}
  BY <1>8 DEF Outbound
<1> HIDE DEF sent, seen
<1> DEFINE g == Planned(f, p, sent, {})
           gone == {c \in f.pendingEdit : \A s \in SlotsOf(c) : sent[s] = NoPush}
<1>10. work' = g /\ outbound' = sent
  BY <1>4, <1>7, <1>8 DEF sent
<1>11. /\ g \in ControlFile /\ g.lifecycle = f.lifecycle
       /\ g.pendingEdit = f.pendingEdit \ gone
       /\ g.snapshot = f.snapshot \union f.pendingEdit
       /\ \A c \in g.pushed : c \in f.pushed \/ c \in gone
       /\ \A s \in Slots :
            /\ g.attributes[s] = f.attributes[s]
            /\ g.platformAttributes[s] = IF s[1] \in f.pendingEdit THEN p[s]
                                                                  ELSE f.platformAttributes[s]
            /\ g.previous[s] = IF s[1] \in gone THEN NotRecorded ELSE f.previous[s]
  BY <1>2, <1>5, PlannedFile
<1> HIDE DEF g, gone
<1>12. g.attributes = f.attributes
  BY <1>2, <1>11 DEF ControlFile, Attrs
<1>13. Agrees(g, p, edits)
  <2>1. g.pushed \intersect g.pendingEdit = {} /\ g.lifecycle = "brownfield"
    BY <1>1, <1>3, <1>11 DEF Agrees, f
  <2>2. ASSUME NEW s \in Slots
        PROVE  /\ s[1] \in g.snapshot \ g.pendingEdit => g.platformAttributes[s] = p[s]
               /\ g.previous[s] \in Values => p[s] \in {g.previous[s], g.attributes[s]}
               /\ edits = 0 => /\ g.attributes[s] = p[s] /\ g.previous[s] = NotRecorded
                               /\ s[1] \in g.snapshot => g.attributes[s] = g.platformAttributes[s]
    BY <1>1, <1>3, <1>11, <2>2 DEF Agrees, f
  <2> QED
    BY <2>1, <2>2 DEF Agrees, Unpublished
<1> QED
  BY <1>1, <1>2, <1>3, <1>9, <1>10, <1>11, <1>12, <1>13 DEF f

LEMMA BrownfieldKeepsQuiet ==
  ASSUME Inv, NamesInv, EditsInv, PushInv, QuietInv,
         \/ \E i \in Ids : StartBrownfield(i)
         \/ \E fetched \in BOOLEAN : PushPlan(fetched)
         \/ \E c \in Classes : Mutate(c) \/ Flush(c)
         \/ WriteFile
  PROVE  QuietInv'
<1> USE Bounds
<1>1. ASSUME NEW i \in Ids, StartBrownfield(i) PROVE QuietInv'
  <2>1. /\ control' = control /\ platform' = platform /\ exists' = exists /\ unseen' = unseen
        /\ edits' = edits /\ journal' = journal /\ pc' = "review" /\ cid' = i /\ live' = platform[i]
    BY <1>1 DEF StartBrownfield, disk, server, history, counts
  <2>2. FilesQuiet'
    BY <2>1, FilesQuietKept DEF QuietInv
  <2> QED
    BY <2>1, <2>2 DEF QuietInv, CallQuiet
<1>2. ASSUME NEW fetched \in BOOLEAN, PushPlan(fetched) PROVE QuietInv'
  <2>1. /\ control' = control /\ platform' = platform /\ exists' = exists /\ FileIds' = FileIds
        /\ edits' = edits /\ journal' = journal /\ pc = "review"
    BY <1>2, SameFiles DEF PushPlan, disk, server
  <2>2. unseen' = {} /\ pc' # "append"
    BY <1>2, PushPlanEffect DEF PlanMade, Return, QuietInv, FilesQuiet
  <2>3. FilesQuiet'
    BY <2>1, <2>2, FilesQuietKept DEF QuietInv, FilesQuiet
  <2>4. CASE Return /\ UNCHANGED <<unseen, late>>
    BY <2>3, <2>4, CallAtRest DEF Return, QuietInv
  <2>5. CASE ~(Return /\ UNCHANGED <<unseen, late>>)
    <3>1. PlanMade
      BY <1>2, <2>5, PushPlanEffect
    <3>2. /\ work'.attributes = control[cid].attributes
          /\ \A s \in Slots : outbound'[s] \in {NoPush, control[cid].attributes[s]}
          /\ \A s \in Slots : s[1] \in control[cid].pendingEdit =>
                                work'.platformAttributes[s] = platform[cid][s]
          /\ Agrees(work', platform[cid], edits)
      BY <1>2, <2>5, QuietPlan
    <3>3. cid' = cid /\ todo' \subseteq control[cid].pendingEdit /\ pc' \in {"mutate", "write"}
      BY <3>1 DEF PlanMade
    <3>4. CallQuiet'
      BY <2>1, <3>2, <3>3 DEF CallQuiet
    <3> QED
      BY <2>3, <3>4 DEF QuietInv
  <2> QED
    BY <2>4, <2>5
<1>3. ASSUME NEW c \in Classes, Mutate(c) PROVE QuietInv'
  <2> DEFINE f == control[cid]
             p == platform[cid]
  <2>1. /\ control' = control /\ exists' = exists /\ FileIds' = FileIds /\ cid' = cid
        /\ edits' = edits /\ journal' = journal /\ pc = "mutate" /\ pc' \in {"mutate", "write"}
        /\ todo' = todo \ {c} /\ c \in todo /\ outbound' = outbound /\ unseen' \subseteq unseen
    BY <1>3, SameFiles DEF Mutate, disk, counts
  <2>2. /\ HasFile /\ HasWork
        /\ \A s \in Slots : platform'[cid][s] = IF s[1] = c /\ outbound[s] # NoPush
                                                THEN outbound[s] ELSE p[s]
        /\ work'.lifecycle = work.lifecycle /\ work'.attributes = work.attributes
        /\ work'.pendingEdit = work.pendingEdit \ {c} /\ work'.pushed = work.pushed \union {c}
        /\ work'.snapshot = work.snapshot
        /\ \A s \in Slots :
             /\ work'.platformAttributes[s] = IF s[1] = c /\ outbound[s] # NoPush
                                              THEN work.attributes[s] ELSE work.platformAttributes[s]
             /\ work'.previous[s] = IF s[1] = c THEN NotRecorded ELSE work.previous[s]
    BY <1>3, MutateEffect
  <2>3. FileIds = {cid} /\ journal = 0 /\ unseen = {} /\ cid \in exists /\ cid # 0
    BY <2>1, <2>2, OneFile, CallHasNoJournal DEF HasFile, QuietInv, FilesQuiet
  <2>4. /\ f.lifecycle = "brownfield" /\ work.lifecycle \in {"brownfield", "tombstoned"}
        /\ c \in f.pendingEdit
    BY <2>1 DEF PushInv, CallPushed, EditsInv
  <2>5. /\ Agrees(f, p, edits) /\ Agrees(work, p, edits) /\ work.attributes = f.attributes
        /\ \A s \in Slots : outbound[s] \in {NoPush, f.attributes[s]}
        /\ \A s \in Slots : s[1] \in todo => work.platformAttributes[s] = p[s]
    BY <2>1, <2>3 DEF QuietInv, FilesQuiet, CallQuiet
  <2>6. \A s \in Slots :
          \/ s[1] = c /\ outbound[s] = f.attributes[s] /\ platform'[cid][s] = f.attributes[s]
             /\ work'.platformAttributes[s] = f.attributes[s]
          \/ platform'[cid][s] = p[s] /\ work'.platformAttributes[s] = work.platformAttributes[s]
    BY <2>2, <2>5
  <2>7. Agrees(f, platform'[cid], edits)
    BY <2>4, <2>5, <2>6 DEF Agrees, Unpublished
  <2>8. Agrees(work', platform'[cid], edits)
    <3>1. work'.pushed \intersect work'.pendingEdit = {} /\ work'.lifecycle \notin Unpublished
      BY <2>2, <2>4, <2>5 DEF Agrees, Unpublished
    <3>2. ASSUME NEW s \in Slots
          PROVE  s[1] \in work'.snapshot \ work'.pendingEdit =>
                   work'.platformAttributes[s] = platform'[cid][s]
      <4>1. CASE s[1] = c
        BY <2>1, <2>5, <2>6, <4>1
      <4>2. CASE s[1] # c
        BY <2>2, <2>5, <2>6, <4>2 DEF Agrees
      <4> QED
        BY <4>1, <4>2
    <3>3. ASSUME NEW s \in Slots, work'.lifecycle = "brownfield"
          PROVE  /\ work'.previous[s] \in Values =>
                      platform'[cid][s] \in {work'.previous[s], work'.attributes[s]}
                 /\ edits = 0 => work'.attributes[s] = platform'[cid][s]
      BY <2>2, <2>5, <2>6, <3>3 DEF Agrees
    <3>4. ASSUME NEW s \in Slots, work'.lifecycle # "tombstoned", edits = 0
          PROVE  /\ work'.previous[s] = NotRecorded
                 /\ s[1] \in work'.snapshot => work'.attributes[s] = work'.platformAttributes[s]
      BY <2>2, <2>5, <2>6, <3>4 DEF Agrees
    <3> QED
      BY <3>1, <3>2, <3>3, <3>4 DEF Agrees
  <2>9. FilesQuiet'
    BY <2>1, <2>3, <2>7, OneFileQuiet
  <2>10. CallQuiet'
    <3>1. \A s \in Slots : s[1] \in todo' => work'.platformAttributes[s] = platform'[cid][s]
      BY <2>1, <2>5, <2>6
    <3> QED
      BY <2>1, <2>2, <2>5, <2>8, <3>1 DEF CallQuiet
  <2> QED
    BY <2>9, <2>10 DEF QuietInv
<1>4. ASSUME NEW c \in Classes, Flush(c) PROVE QuietInv'
  <2>1. /\ control' = control /\ platform' = platform /\ exists' = exists /\ unseen' = unseen
        /\ edits' = edits /\ journal' = journal /\ pc' \in {"idle", "flush"}
    BY <1>4 DEF Flush, Return, disk, server, counts
  <2> QED
    BY <2>1, FilesQuietKept, CallAtRest DEF QuietInv
<1>5. CASE WriteFile
  <2>1. /\ HasWork /\ HasFile /\ Save(work) /\ platform' = platform /\ exists' = exists
        /\ unseen' = unseen /\ journal' = journal /\ edits' = edits /\ pc = "write"
        /\ pc' \in {"idle", "flush"} /\ Agrees(work, platform[cid], edits)
    BY <1>5 DEF WriteFile, Return, server, history, counts, Inv, CallInv, QuietInv, CallQuiet
  <2>2. FileIds = {cid} /\ journal = 0 /\ unseen = {} /\ cid \in exists
    BY <2>1, OneFile, CallHasNoJournal DEF HasFile, QuietInv, FilesQuiet
  <2>3. control'[cid] = work /\ FileIds' = {cid} /\ cid # 0
    BY <2>1, <2>2, SavedFile DEF Inv, HasWork
  <2>4. FilesQuiet'
    BY <2>1, <2>2, <2>3, OneFileQuiet
  <2> QED
    BY <2>1, <2>4, CallAtRest DEF QuietInv
<1> QED
  BY <1>1, <1>2, <1>3, <1>4, <1>5

\* An edit records the platform's value, or what the file knows of it.
LEMMA EditKeepsQuiet ==
  ASSUME Inv, NamesInv, QuietInv, NEW i \in Ids, NEW c \in Classes, EditMade(i, c), Ready,
         i \in FileIds, journal' = journal, UNCHANGED <<server, call, unseen>>,
         edits' \in {edits, edits + 1}, edits' <= 1
  PROVE  QuietInv'
<1> USE Bounds
<1> DEFINE f == control[i]
           p == platform[i]
<1>1. f.id = i /\ FileIds = {i} /\ pc' = "idle" /\ journal' = 0
  BY OneFile DEF Ready, Idle, NamesInv, Inv, FilesInv, call
<1>2. PICK g \in ControlFile :
        /\ Save(g) /\ g.id = f.id /\ g.lifecycle = f.lifecycle
        /\ g.pendingEdit = f.pendingEdit \union {c} /\ g.pushed = f.pushed \ {c}
        /\ g.snapshot = f.snapshot /\ g.platformAttributes = f.platformAttributes
        /\ \A t \in Slots : g.attributes[t] = f.attributes[t] \/ edits' = edits + 1
        /\ \A t \in Slots :
             \/ g.previous[t] = f.previous[t]
             \/ g.previous[t] \in {FirstWrite, f.attributes[t]} /\ edits' = edits + 1
             \/ /\ g.previous[t] = f.platformAttributes[t] /\ t[1] = c
                /\ c \in f.snapshot \ f.pendingEdit
                /\ f.attributes[t] # f.platformAttributes[t]
  BY DEF EditMade
<1>3. control'[i] = g /\ FileIds' = {i}
  BY <1>1, <1>2, SavedFile DEF Inv
<1>4. platform' = platform /\ exists' = exists /\ unseen' = {}
  BY DEF server, QuietInv, FilesQuiet
<1>5. /\ edits \in Nat
      /\ edits' = edits + 1 => edits = 0 /\ edits' # 0
      /\ edits' # edits + 1 => edits' = edits
  BY DEF Inv, TypeOK
<1>6. CASE i = 0
  <2>1. Fresh(f, edits)
    BY <1>1, <1>6 DEF QuietInv, FilesQuiet
  <2>2. Fresh(g, edits')
    BY <1>2, <1>5, <2>1 DEF Fresh
  <2>3. FilesQuiet'
    BY <1>1, <1>3, <1>4, <1>6, <2>2 DEF FilesQuiet
  <2> QED
    BY <1>1, <2>3, CallAtRest DEF QuietInv
<1>7. CASE i # 0
  <2>1. Agrees(f, p, edits) /\ i \in exists
    BY <1>1, <1>7 DEF QuietInv, FilesQuiet
  <2>2. /\ g.pushed \intersect g.pendingEdit = {}
        /\ g.lifecycle \in Unpublished => g.snapshot \subseteq g.pushed \union g.pendingEdit
    BY <1>2, <2>1 DEF Agrees
  <2>3. ASSUME NEW s \in Slots, s[1] \in g.snapshot \ g.pendingEdit
        PROVE  g.platformAttributes[s] = p[s]
    BY <1>2, <2>1, <2>3 DEF Agrees
  <2>4. ASSUME NEW s \in Slots, g.lifecycle = "brownfield", g.previous[s] \in Values
        PROVE  p[s] \in {g.previous[s], g.attributes[s]}
    <3>1. CASE g.previous[s] = f.previous[s]
      BY <1>2, <1>5, <2>1, <2>4, <3>1 DEF Agrees
    <3>2. CASE g.previous[s] \in {FirstWrite, f.attributes[s]} /\ edits' = edits + 1
      BY <1>2, <1>5, <2>1, <2>4, <3>2 DEF Agrees
    <3>3. CASE g.previous[s] = f.platformAttributes[s] /\ s[1] = c /\ c \in f.snapshot \ f.pendingEdit
      BY <1>2, <2>1, <2>4, <3>3 DEF Agrees
    <3> QED
      BY <1>2, <3>1, <3>2, <3>3
  <2>5. ASSUME NEW s \in Slots, edits' = 0
        PROVE  /\ g.lifecycle = "brownfield" => g.attributes[s] = p[s]
               /\ g.lifecycle # "tombstoned" =>
                    /\ g.previous[s] = NotRecorded
                    /\ s[1] \in g.snapshot => g.attributes[s] = g.platformAttributes[s]
    BY <1>2, <1>5, <2>1, <2>5 DEF Agrees
  <2>6. Agrees(g, p, edits')
    BY <2>2, <2>3, <2>4, <2>5 DEF Agrees
  <2>7. FilesQuiet'
    BY <1>1, <1>3, <1>4, <1>7, <2>1, <2>6, OneFileQuiet
  <2> QED
    BY <1>1, <2>7, CallAtRest DEF QuietInv
<1> QED
  BY <1>6, <1>7

LEMMA OthersKeepQuiet ==
  ASSUME PullsBrownfield, Inv, NamesInv, QuietInv, foreign' = 0, edits' <= 1,
         \/ Fail \/ PlatformRefuses
         \/ \E i \in Ids : \/ Pull(i) \/ Tombstone(i) \/ ForeignDelete(i)
                           \/ \E c \in Classes : Promote(i, c)
                           \/ \E s \in Slots, v \in Values :
                                SetLocalEdited(i, s, v) \/ HandEdit(i, s, v) \/ Foreign(i, s, v)
         \/ UNCHANGED vars
  PROVE  QuietInv'
<1> USE Bounds
<1>0. foreign \in Nat /\ edits \in Nat
  BY DEF Inv, TypeOK
<1>1. CASE Fail \/ PlatformRefuses
  <2>1. /\ control' = control /\ platform' = platform /\ exists' = exists /\ unseen' = unseen
        /\ edits' = edits /\ journal' = journal /\ pc' = "idle"
    BY <1>1 DEF Fail, PlatformRefuses, Return, disk, server, history, counts
  <2> QED
    BY <2>1, FilesQuietKept, CallAtRest DEF QuietInv
<1>2. ASSUME NEW i \in Ids, Pull(i) PROVE QuietInv'
  <2> DEFINE f == control[i]
             p == platform[i]
  <2>1. /\ control' = control /\ FileIds' = FileIds /\ i \in FileIds /\ i # 0 /\ journal = 0
        /\ platform' = platform /\ exists' = exists /\ edits' = edits /\ journal' = journal
        /\ f.lifecycle \in PullLives /\ cid' = i /\ pc' = "write"
    BY <1>2, SameFiles DEF Pull, Ready, disk, server, counts
  <2>2. f \in ControlFile /\ FileOK(f) /\ f.lifecycle = "brownfield" /\ p \in Attrs
    BY <2>1, FileFacts DEF Inv, FilesInv, TypeOK, PullsBrownfield
  <2>3. i \in exists /\ Agrees(f, p, edits) /\ unseen = {}
    BY <2>1 DEF QuietInv, FilesQuiet
  <2>4. work' = Pulled(f, p) /\ unseen' = {}
    BY <1>2, <2>3 DEF Pull
  <2> DEFINE g == Pulled(f, p)
  <2>5. /\ g.lifecycle = "brownfield" /\ g.pendingEdit = f.pendingEdit /\ g.pushed = f.pushed
        /\ g.platformAttributes = p /\ g.previous = f.previous
        /\ \A s \in Slots : g.attributes[s] = IF s[1] \in f.pendingEdit
                                              THEN f.attributes[s] ELSE p[s]
    BY <2>2, PulledFile
  <2> HIDE DEF g
  <2>6. \A s \in Slots : f.previous[s] \in Values => p[s] \in {g.previous[s], g.attributes[s]}
    BY <2>2, <2>3, <2>5 DEF Agrees
  <2>7. edits = 0 => \A s \in Slots : g.attributes[s] = p[s] /\ g.previous[s] = NotRecorded
    BY <2>2, <2>3, <2>5 DEF Agrees
  <2>8. Agrees(g, p, edits)
    BY <2>3, <2>5, <2>6, <2>7 DEF Agrees, Unpublished
  <2>9. FilesQuiet'
    BY <2>1, <2>3, <2>4, FilesQuietKept DEF QuietInv
  <2> QED
    BY <2>1, <2>4, <2>8, <2>9 DEF QuietInv, CallQuiet, g
<1>3. ASSUME NEW i \in Ids, Tombstone(i) PROVE QuietInv'
  <2> DEFINE f == control[i]
             g == [f EXCEPT !.lifecycle = "tombstoned"]
  <2>1. /\ "tombstoned" \in Lifecycles /\ i \in FileIds /\ Ready /\ platform' = platform
        /\ exists' = exists /\ unseen' = unseen /\ pc' = "idle" /\ edits' = edits
        /\ journal' = 0
    BY <1>3 DEF Lifecycles, Tombstone, Ready, Idle, call, server, history, counts
  <2>2. f \in ControlFile /\ FileOK(f) /\ f.id = i /\ FileIds = {i}
    BY <2>1, FileFacts, OneFile DEF Inv, FilesInv, NamesInv, Ready, Idle
  <2>3. /\ g \in ControlFile /\ g.id = i /\ g.lifecycle = "tombstoned"
        /\ g.attributes = f.attributes /\ g.pushed = f.pushed
        /\ g.pendingEdit = f.pendingEdit /\ g.snapshot = f.snapshot
        /\ g.previous = f.previous /\ g.platformAttributes = f.platformAttributes
    BY <2>1, <2>2, MovedFile
  <2>4. Save(g)
    BY <1>3 DEF Tombstone
  <2> HIDE DEF g
  <2>5. control'[i] = g /\ FileIds' = {i}
    BY <2>2, <2>3, <2>4, SavedFile DEF Inv
  <2>6. CASE i = 0
    <3>1. Fresh(g, edits)
      BY <2>2, <2>3, <2>6 DEF QuietInv, FilesQuiet, Fresh
    <3>2. FilesQuiet'
      BY <2>1, <2>5, <2>6, <3>1 DEF QuietInv, FilesQuiet
    <3> QED
      BY <2>1, <3>2, CallAtRest DEF QuietInv
  <2>7. CASE i # 0
    <3>1. Agrees(f, platform[i], edits) /\ i \in exists /\ unseen = {}
      BY <2>2, <2>7 DEF QuietInv, FilesQuiet
    <3>2. Agrees(g, platform[i], edits)
      BY <2>3, <3>1, AgreesMoved
    <3>3. FilesQuiet'
      BY <2>1, <2>5, <2>7, <3>1, <3>2, OneFileQuiet
    <3> QED
      BY <2>1, <3>3, CallAtRest DEF QuietInv
  <2> QED
    BY <2>6, <2>7
<1>4. ASSUME NEW i \in Ids, ForeignDelete(i) PROVE FALSE
  BY <1>0, <1>4 DEF ForeignDelete
<1>5. ASSUME NEW i \in Ids, NEW c \in Classes, Promote(i, c) PROVE QuietInv'
  <2>1. /\ Ready /\ i \in FileIds /\ UNCHANGED <<server, call, unseen>> /\ journal' = journal
        /\ edits' = edits
    BY <1>5 DEF Promote, counts
  <2> QED
    BY <1>5, <2>1, PromoteEffect, EditKeepsQuiet
<1>6. ASSUME NEW i \in Ids, NEW s \in Slots, NEW v \in Values, SetLocalEdited(i, s, v)
      PROVE  QuietInv'
  <2>1. /\ Ready /\ i \in FileIds /\ UNCHANGED <<server, call, unseen>> /\ journal' = journal
        /\ edits' = edits + 1
    BY <1>6 DEF SetLocalEdited
  <2> QED
    BY <1>6, <2>1, SetLocalEditedEffect, SlotClass, EditKeepsQuiet
<1>7. ASSUME NEW i \in Ids, NEW s \in Slots, NEW v \in Values, HandEdit(i, s, v) PROVE QuietInv'
  <2> DEFINE f == control[i]
             p == platform[i]
  <2>1. PICK g \in ControlFile :
          /\ control' = [control EXCEPT ![i] = g] /\ g.id = i /\ i # 0
          /\ i \in FileIds /\ g.lifecycle = "brownfield" /\ f.lifecycle = "brownfield"
          /\ g.pendingEdit = f.pendingEdit /\ g.pushed = f.pushed
          /\ g.snapshot = f.snapshot /\ g.platformAttributes = f.platformAttributes
          /\ g.previous = f.previous
    BY <1>7, HandEditEffect
  <2>2. Save(g)
    BY <2>1 DEF Save
  <2>3. /\ journal = 0 /\ journal' = 0 /\ pc' = "idle" /\ platform' = platform
        /\ exists' = exists /\ unseen' = unseen /\ edits' = edits + 1
    BY <1>7 DEF HandEdit, Ready, Idle, call, server, history
  <2>4. FileIds = {i} /\ edits = 0 /\ edits' = 1
    BY <1>0, <2>1, <2>3, OneFile
  <2>5. control'[i] = g /\ FileIds' = {i}
    BY <2>1, <2>2, <2>4, SavedFile DEF Inv
  <2>6. Agrees(f, p, 0) /\ i \in exists /\ unseen = {}
    BY <2>1, <2>4 DEF QuietInv, FilesQuiet
  <2>7. \A s_1 \in Slots : g.previous[s_1] \notin Values
    BY <2>1, <2>6 DEF Agrees
  <2>8. Agrees(g, p, 1)
    BY <2>1, <2>6, <2>7 DEF Agrees, Unpublished
  <2>9. FilesQuiet'
    BY <2>1, <2>3, <2>4, <2>5, <2>6, <2>8, OneFileQuiet
  <2> QED
    BY <2>3, <2>9, CallAtRest DEF QuietInv
<1>8. ASSUME NEW i \in Ids, NEW s \in Slots, NEW v \in Values, Foreign(i, s, v) PROVE FALSE
  BY <1>0, <1>8 DEF Foreign
<1>9. CASE UNCHANGED vars
  <2>1. FilesQuiet'
    BY <1>9, SameFiles DEF QuietInv, FilesQuiet, vars, disk, server, call, history, counts
  <2>2. CallQuiet'
    BY <1>9 DEF QuietInv, CallQuiet, vars, disk, server, call, history, counts
  <2> QED
    BY <2>1, <2>2 DEF QuietInv
<1> QED
  BY <1>1, <1>2, <1>3, <1>4, <1>5, <1>6, <1>7, <1>8, <1>9

\* While nobody else writes, and for one edit, every file and the file in memory agree
\* with the platform but for that edit.
THEOREM QuietHolds == PullsBrownfield /\ Spec => []NoConflictInv
<1> SUFFICES ASSUME PullsBrownfield PROVE Spec => []NoConflictInv
  OBVIOUS
<1>0. Spec => []CompleteInv
  <2>1. PullsPublished
    BY DEF PullsBrownfield, PullsPublished, Unpublished
  <2> QED
    BY <2>1, PushesHold
<1>1. Init => NoConflictInv
  <2> SUFFICES ASSUME Init PROVE QuietInv
    BY DEF NoConflictInv
  <2>1. control[0] = NewControl /\ FileIds = {0}
    BY NewFile, FileAssumption, Bounds DEF Init, FileIds
  <2>2. Fresh(NewControl, edits)
    BY DEF NewControl, Fresh
  <2>3. FilesQuiet
    BY <2>1, <2>2 DEF Init, FilesQuiet
  <2> QED
    BY <2>3 DEF Init, CallQuiet, QuietInv
<1>2. Inv /\ RefsInv /\ AuditInv /\ CompleteInv /\ NoConflictInv /\ [Next]_vars => NoConflictInv'
  <2> SUFFICES ASSUME Inv, RefsInv, AuditInv, CompleteInv, NoConflictInv, [Next]_vars,
                      ~cleared', foreign' = 0, edits' <= 1
               PROVE  QuietInv'
    BY DEF NoConflictInv
  <2>1. ~cleared /\ foreign = 0 /\ edits <= 1
    BY ClearedStays, CountsGrow
  <2>2. NamesInv /\ EditsInv /\ PushInv /\ QuietInv /\ ~ClearWal
    BY <2>1 DEF RefsInv, AuditInv, CompleteInv, NoConflictInv, ClearWal
  <2> QED
    BY <2>2, ReplayKeepsQuiet, GreenfieldKeepsQuiet, BrownfieldKeepsQuiet, OthersKeepQuiet
       DEF Next, CallStep
<1> QED
  BY <1>0, <1>1, <1>2, TypesAndFiles, NamesHold, EditsHold, PTL DEF Spec

\* A push tried again, after a call that died anywhere, never asks the operator to
\* decide between the operator's own edit and what the call that died has already
\* written: while nobody else writes the Control, and for one edit of it, the review
\* finds no conflict.  A pull of a Control before it is published and a journal that
\* was deleted are left out.
THEOREM RetryHasNoConflictHolds ==
  PullsBrownfield /\ Spec => [](cleared \/ RetryHasNoConflict)
<1> SUFFICES ASSUME PullsBrownfield PROVE Spec => [](cleared \/ RetryHasNoConflict)
  OBVIOUS
<1>0. (Spec => []CompleteInv) /\ (Spec => []NoConflictInv)
  <2>1. PullsPublished
    BY DEF PullsBrownfield, PullsPublished, Unpublished
  <2> QED
    BY <2>1, PushesHold, QuietHolds
<1>1. Inv /\ CompleteInv /\ NoConflictInv => (cleared \/ RetryHasNoConflict)
  <2> SUFFICES ASSUME Inv, CompleteInv, NoConflictInv, ~cleared, pc = "review",
                      foreign = 0, edits <= 1
               PROVE  Conflicts(control[cid], platform[cid]) = {}
    BY DEF RetryHasNoConflict
  <2>1. PushInv /\ QuietInv /\ HasFile
    BY DEF CompleteInv, NoConflictInv, Inv, CallInv
  <2>2. control[cid].lifecycle = "brownfield" /\ control[cid] \in ControlFile
    BY <2>1, FileFacts DEF PushInv, CallPushed, HasFile, Inv
  <2>3. Agrees(control[cid], platform[cid], edits)
    BY <2>1 DEF HasFile, QuietInv, FilesQuiet
  <2> QED
    BY <2>2, <2>3, NoConflicts
<1> QED
  BY <1>0, <1>1, TypesAndFiles, PTL

-----------------------------------------------------------------------------
(* An edit ends settled *)

\* The operator gives only answers that Step D writes down in full: no merge, and
\* "accept-theirs" only where a class has one attribute.
AnswersKept ==
  /\ "merge" \notin Choices
  /\ "accept-theirs" \in Choices => \A s, t \in Slots : s[1] = t[1] => s = t

LEMMA SettleAtRest ==
  ASSUME pc' \notin {"flip", "review", "record", "mutate", "write"}
  PROVE  SettleInv'
BY DEF SettleInv

\* Steps B to D decide from what the platform holds, or from an attribute that somebody
\* else has written since.
LEMMA PlanSettles ==
  ASSUME AnswersKept, Inv, SettleInv, NEW fetched \in BOOLEAN, PushPlan(fetched), cid \in exists,
         ~(Return /\ UNCHANGED <<unseen, late>>)
  PROVE  \A s \in Recorded(control[cid]) :
           /\ s[1] \in work'.pendingEdit \/ outbound'[s] = NoPush
           /\ \/ /\ outbound'[s] = NoPush
                 /\ s \in unseen' \/ Settles(control[cid], work', platform[cid], s)
              \/ /\ outbound'[s] # NoPush /\ outbound'[s] = control[cid].attributes[s]
                 /\ work'.attributes[s] = control[cid].attributes[s]
<1> USE Bounds
<1> DEFINE f == control[cid]
           p == platform[cid]
           seen == Seen(fetched)
<1>1. HasFile /\ pc = "review" /\ f \in ControlFile /\ FileOK(f)
  BY FileFacts DEF Inv, CallInv, PushPlan, HasFile, FilesInv
<1>2. /\ f.attributes \in Attrs /\ f.pendingEdit \in SUBSET Classes
      /\ f.previous \in [Slots -> Values \union {NotRecorded, FirstWrite}]
  BY <1>1 DEF ControlFile
<1>3. seen \in Attrs /\ \A s \in Slots : s \notin unseen => seen[s] = p[s]
  BY <1>1 DEF Seen, Inv, TypeOK, SettleInv
<1> DEFINE choice == [s \in Conflicts(f, seen) |-> decision[s]]
<1>4. Blocked(f, seen) = {} /\ \A s \in Conflicts(f, seen) : decision[s] # "undecided"
  BY PlanDrawn, Zenon
<1>5. PICK merged \in IF "merge" \in Choices THEN Values ELSE {NoPush},
           last \in SUBSET Conflicts(f, seen) :
        LET sent == Outbound(f, seen, choice, merged)
            send == {c \in Classes : \E s \in SlotsOf(c) : sent[s] # NoPush}
        IN  /\ last \subseteq Taken(choice)
            /\ \A s \in Taken(choice) : \E t \in last : t[1] = s[1]
            /\ \A s, t \in last : s[1] = t[1] => s = t
            /\ outbound' = sent /\ todo' = send
            /\ work' = Planned(f, seen, sent, last)
            /\ pc' = IF send = {} THEN "write" ELSE "mutate"
            /\ buffer' = Reverted(f)
            /\ unseen' = unseen \ {s \in DOMAIN choice :
                 platform[cid][s] = IF s \in last THEN seen[s] ELSE live[s]}
            /\ decision' = [s \in Slots |->
                 IF s \in DOMAIN choice THEN choice[s] ELSE "undecided"]
            /\ late' = IF fetched THEN {} ELSE Slots
            /\ live' = AllAbsent /\ UNCHANGED <<cid, at>>
  BY PlanDrawn, Zenon
<1> HIDE DEF f
<1> HIDE DEF seen
<1> DEFINE sent == Outbound(f, seen, choice, merged)
           g == Planned(f, seen, sent, last)
<1>6. Conflicts(f, seen) \subseteq Slots /\ DOMAIN choice = Conflicts(f, seen)
  BY DEF Conflicts, Prior, Considered, Recorded
<1>61. choice \in [Conflicts(f, seen) -> Choices \ {"undecided"}]
  <2>1. \A s \in Conflicts(f, seen) : decision[s] # "undecided"
    BY <1>4
  <2>2. decision \in [Slots -> Choices \union {"undecided"}]
    BY DEF Inv, TypeOK
  <2> QED
    BY <1>6, <2>1, <2>2
<1> HIDE DEF choice
<1>7. \A s \in Conflicts(f, seen) :
        /\ seen[s] # f.previous[s] /\ seen[s] \in Values /\ s[1] \in f.pendingEdit
        /\ s \notin Applied(f, seen)
  BY <1>3, <1>4, <1>6 DEF Conflicts, Prior, Considered, Recorded, Blocked, Attrs
<1>8. Taken(choice) = last
  <2> SUFFICES ASSUME NEW s \in Taken(choice) PROVE s \in last
    BY <1>5
  <2>1. s \in Slots /\ "accept-theirs" \in Choices
    BY <1>6, <1>61 DEF Taken
  <2>2. PICK t \in last : t[1] = s[1]
    BY <1>5
  <2> QED
    BY <1>6, <2>1, <2>2 DEF AnswersKept
<1>9. \A s \in Slots :
        sent[s] = IF s \notin Considered(f) \ (Applied(f, seen) \union last)
                  THEN NoPush ELSE f.attributes[s]
  <2>1. \A s \in DOMAIN choice : choice[s] # "merge"
    BY <1>61 DEF AnswersKept
  <2> QED
    BY <1>8, <2>1 DEF Outbound
<1> HIDE DEF sent
<1>10. /\ g.pendingEdit = f.pendingEdit \ {c \in f.pendingEdit : \A s \in SlotsOf(c) : sent[s] = NoPush}
       /\ \A s \in Slots : g.attributes[s] = IF s \in last THEN seen[s] ELSE f.attributes[s]
  BY <1>1, <1>3, <1>5, <1>6, <1>7, PlannedFile
<1> HIDE DEF g
<1>11. work' = g /\ outbound' = sent
  BY <1>5 DEF g, sent
<1> SUFFICES ASSUME NEW s \in Recorded(f)
             PROVE  /\ s[1] \in g.pendingEdit \/ sent[s] = NoPush
                    /\ \/ sent[s] = NoPush /\ (s \in unseen' \/ Settles(f, g, p, s))
                       \/ /\ sent[s] # NoPush /\ sent[s] = f.attributes[s]
                          /\ g.attributes[s] = f.attributes[s]
  BY <1>11 DEF f
<1>12. s \in Slots /\ s[1] \in f.pendingEdit /\ f.attributes[s] \in Values
  BY <1>1 DEF Recorded, FileOK
<1>13. s[1] \in g.pendingEdit \/ sent[s] = NoPush
  BY <1>10, <1>12 DEF SlotsOf
<1>14. s \notin unseen' => seen[s] = p[s]
  <2>1. seen = p \/ seen = live
    BY DEF seen, Seen
  <2> QED
    BY <1>3, <1>5, <1>12, <2>1
<1>15. CASE s \notin Considered(f)
  <2>1. s[1] \in Reverted(f)
    BY <1>15 DEF Considered
  <2>2. f.previous[s] = f.attributes[s]
    BY <1>12, <2>1 DEF Reverted, SlotsOf
  <2> QED
    BY <1>9, <1>12, <1>13, <1>15, <2>2 DEF Settles
<1>16. CASE s \in Applied(f, seen)
  <2>1. seen[s] = f.attributes[s] /\ s \notin last
    BY <1>7, <1>16 DEF Applied
  <2> QED
    BY <1>9, <1>10, <1>12, <1>13, <1>14, <1>16, <2>1 DEF Settles
<1>17. CASE s \in last
  BY <1>7, <1>9, <1>10, <1>12, <1>13, <1>14, <1>17 DEF Settles
<1>18. CASE s \in Considered(f) \ (Applied(f, seen) \union last)
  <2>1. sent[s] = f.attributes[s] /\ g.attributes[s] = f.attributes[s]
    BY <1>9, <1>10, <1>12, <1>18
  <2> QED
    BY <1>12, <1>13, <2>1
<1> QED
  BY <1>15, <1>16, <1>17, <1>18

LEMMA CallsKeepSettle ==
  ASSUME AnswersKept, Inv, NamesInv, SettleInv, Replay \/ CallStep \/ Fail
  PROVE  SettleInv'
<1> USE Bounds
<1>1. CASE BeginReplay \/ RewriteDoc \/ RewriteControl \/ Rename
  BY <1>1, SettleAtRest DEF BeginReplay, RewriteDoc, RewriteControl, Rename
<1>2. CASE UnlinkJournal
  <2>1. /\ control' = control /\ cid' = cid
        /\ pc' = "idle" \/ (pc' = "flip" /\ work' = control[cid])
    BY <1>2 DEF UnlinkJournal
  <2> QED
    BY <2>1 DEF SettleInv
<1>3. CASE CreateControl \/ AppendOperation \/ FlipLifecycle \/ RecordAttributes \/ AssignEdges
  BY <1>3, SettleAtRest
     DEF CreateControl, AppendOperation, FlipLifecycle, RecordAttributes, AssignEdges
<1>4. CASE Finalise \/ PlatformRefuses \/ Fail
  BY <1>4, SettleAtRest DEF Finalise, PlatformRefuses, Fail, Return
<1>5. CASE WriteFile
  BY <1>5, SettleAtRest DEF WriteFile, Return
<1>6. ASSUME NEW c \in Classes, Flush(c) PROVE SettleInv'
  BY <1>6, SettleAtRest DEF Flush, Return
<1>7. ASSUME NEW c \in Classes, SetAttributes(c) PROVE SettleInv'
  <2> DEFINE f == control[cid]
  <2>1. control' = control /\ cid' = cid /\ pc' = "record"
    BY <1>7 DEF SetAttributes, disk
  <2>2. /\ f \in ControlFile /\ FileOK(f) /\ work'.attributes = f.attributes
        /\ work'.pendingEdit = f.pendingEdit \ {c}
        /\ \A s \in Slots : platform'[cid][s] = IF s[1] = c /\ f.attributes[s] # Absent
                                                THEN f.attributes[s] ELSE platform[cid][s]
    BY <1>7, SetAttributesEffect
  <2>3. \A s \in Recorded(f) :
          s[1] \in work'.pendingEdit \/ Settles(f, work', platform'[cid], s)
    <3> SUFFICES ASSUME NEW s \in Recorded(f), s[1] = c
                 PROVE  Settles(f, work', platform'[cid], s)
      BY <2>2 DEF Recorded
    <3>1. s \in Slots /\ f.attributes[s] \in Values
      BY <2>2 DEF Recorded, FileOK
    <3> QED
      BY <2>2, <3>1 DEF Settles
  <2> QED
    BY <2>1, <2>3 DEF SettleInv
<1>8. ASSUME NEW fetched \in BOOLEAN, PushPlan(fetched) PROVE SettleInv'
  <2>1. CASE Return /\ UNCHANGED <<unseen, late>>
    BY <2>1, SettleAtRest DEF Return
  <2>2. CASE ~(Return /\ UNCHANGED <<unseen, late>>)
    <3>1. control' = control /\ platform' = platform /\ exists' = exists
      BY <1>8 DEF PushPlan, disk, server
    <3>2. cid' = cid /\ pc' \in {"mutate", "write"}
      BY <1>8, <2>2, PushPlanEffect DEF PlanMade
    <3>3. CASE cid \notin exists
      BY <3>1, <3>2, <3>3 DEF SettleInv
    <3>4. CASE cid \in exists
      <4>1. \A s \in Recorded(control[cid]) :
              /\ s[1] \in work'.pendingEdit \/ outbound'[s] = NoPush
              /\ \/ /\ outbound'[s] = NoPush
                    /\ s \in unseen' \/ Settles(control[cid], work', platform[cid], s)
                 \/ /\ outbound'[s] # NoPush /\ outbound'[s] = control[cid].attributes[s]
                    /\ work'.attributes[s] = control[cid].attributes[s]
        BY <1>8, <2>2, <3>4, PlanSettles
      <4> QED
        BY <3>1, <3>2, <4>1 DEF SettleInv
    <3> QED
      BY <3>3, <3>4
  <2> QED
    BY <2>1, <2>2
<1>9. ASSUME NEW c \in Classes, Mutate(c) PROVE SettleInv'
  <2> DEFINE f == control[cid]
             p == platform[cid]
  <2>1. /\ control' = control /\ exists' = exists /\ cid' = cid /\ cid \in exists /\ pc = "mutate"
        /\ pc' \in {"mutate", "write"} /\ todo' = todo \ {c} /\ c \in todo /\ outbound' = outbound
        /\ unseen' = unseen \ {s \in SlotsOf(c) : outbound[s] # NoPush}
    BY <1>9 DEF Mutate, disk
  <2>2. /\ work'.attributes = work.attributes /\ work'.pendingEdit = work.pendingEdit \ {c}
        /\ \A s \in Slots : platform'[cid][s] = IF s[1] = c /\ outbound[s] # NoPush
                                                THEN outbound[s] ELSE p[s]
    BY <1>9, MutateEffect
  <2>3. \A s \in Recorded(f) \ unseen :
          s[1] \in work.pendingEdit \/ Settles(f, work, p, s)
    BY <2>1 DEF SettleInv
  <2>4. \A s \in Recorded(f) : s[1] \in todo =>
          \/ outbound[s] = NoPush /\ (s \in unseen \/ Settles(f, work, p, s))
          \/ outbound[s] # NoPush /\ outbound[s] = f.attributes[s] /\ work.attributes[s] = f.attributes[s]
    BY <2>1 DEF SettleInv
  <2>5. ASSUME NEW s \in Recorded(f), s[1] = c
        PROVE  s \in unseen' \/ Settles(f, work', platform'[cid], s)
    <3>1. s \in Slots
      BY DEF Recorded
    <3>2. CASE outbound[s] = NoPush
      BY <2>1, <2>2, <2>4, <2>5, <3>1, <3>2 DEF Settles
    <3>3. CASE outbound[s] # NoPush
      BY <2>1, <2>2, <2>4, <2>5, <3>1, <3>3 DEF Settles
    <3> QED
      BY <3>2, <3>3
  <2>6. ASSUME NEW s \in Recorded(f), s[1] # c
        PROVE  /\ platform'[cid][s] = p[s] /\ (s \in unseen' <=> s \in unseen)
               /\ (Settles(f, work', platform'[cid], s) <=> Settles(f, work, p, s))
    <3>1. s \in Slots
      BY DEF Recorded
    <3>2. platform'[cid][s] = p[s] /\ (s \in unseen' <=> s \in unseen)
      BY <2>1, <2>2, <2>6, <3>1 DEF SlotsOf
    <3> QED
      BY <2>2, <3>2 DEF Settles
  <2>7. \A s \in Recorded(f) \ unseen' :
          s[1] \in work'.pendingEdit \/ Settles(f, work', platform'[cid], s)
    BY <2>2, <2>3, <2>5, <2>6
  <2>8. \A s \in Recorded(f) : s[1] \in todo' =>
          \/ outbound[s] = NoPush /\ (s \in unseen' \/ Settles(f, work', platform'[cid], s))
          \/ outbound[s] # NoPush /\ outbound[s] = f.attributes[s] /\ work'.attributes[s] = f.attributes[s]
    BY <2>1, <2>2, <2>4, <2>6
  <2> QED
    BY <2>1, <2>7, <2>8 DEF SettleInv
<1> QED
  BY <1>1, <1>2, <1>3, <1>4, <1>5, <1>6, <1>7, <1>8, <1>9 DEF Replay, CallStep

LEMMA OthersKeepSettle ==
  ASSUME Inv, NamesInv, SettleInv,
         \/ \E i \in Ids : \/ StartGreenfield(i) \/ StartBrownfield(i)
                           \/ Pull(i) \/ Tombstone(i) \/ ForeignDelete(i)
                           \/ \E c \in Classes : Promote(i, c)
                           \/ \E s \in Slots, v \in Values :
                                SetLocalEdited(i, s, v) \/ HandEdit(i, s, v) \/ Foreign(i, s, v)
         \/ UNCHANGED vars
  PROVE  SettleInv'
<1> USE Bounds
<1>1. ASSUME NEW i \in Ids, StartGreenfield(i) PROVE SettleInv'
  <2>1. control' = control /\ i \in FileIds /\ pc = "idle" /\ journal = 0 /\ cid' = control[i].id
    BY <1>1 DEF StartGreenfield, Ready, Idle, disk
  <2>2. control[i].id = i
    BY <2>1 DEF NamesInv, Inv, FilesInv
  <2>3. pc' \in {"create", "attributes"} \/ (pc' = "flip" /\ work' = control[i])
    BY <1>1 DEF StartGreenfield
  <2> QED
    BY <2>1, <2>2, <2>3 DEF SettleInv
<1>2. ASSUME NEW i \in Ids, StartBrownfield(i) PROVE SettleInv'
  BY <1>2 DEF StartBrownfield, server, SettleInv
<1>3. ASSUME NEW i \in Ids, Pull(i) PROVE SettleInv'
  <2>1. control' = control /\ exists' = exists /\ cid' = i /\ pc' = "write" /\ i \in FileIds
    BY <1>3 DEF Pull, disk, server
  <2>2. control[i] \in ControlFile /\ FileOK(control[i]) /\ platform[i] \in Attrs
    BY <2>1, FileFacts DEF Inv, FilesInv, TypeOK
  <2>3. i \in exists => work'.pendingEdit = control[i].pendingEdit
    <3>1. i \in exists => work' = Pulled(control[i], platform[i])
      BY <1>3 DEF Pull
    <3>2. Pulled(control[i], platform[i]).pendingEdit = control[i].pendingEdit
      BY <2>2, PulledFile
    <3> QED
      BY <3>1, <3>2
  <2> QED
    BY <2>1, <2>3 DEF SettleInv, Recorded
<1>4. ASSUME NEW i \in Ids, Tombstone(i) PROVE SettleInv'
  BY <1>4, SettleAtRest DEF Tombstone, Ready, Idle, call
<1>5. ASSUME NEW i \in Ids, NEW c \in Classes, Promote(i, c) PROVE SettleInv'
  BY <1>5, SettleAtRest DEF Promote, Ready, Idle, call
<1>6. ASSUME NEW i \in Ids, NEW s \in Slots, NEW v \in Values,
             SetLocalEdited(i, s, v) \/ HandEdit(i, s, v)
      PROVE  SettleInv'
  BY <1>6, SettleAtRest DEF SetLocalEdited, HandEdit, Ready, Idle, call
<1>7. ASSUME NEW i \in Ids, ForeignDelete(i) PROVE SettleInv'
  <2>1. /\ control' = control /\ UNCHANGED call /\ exists' = exists \ {i} /\ unseen' = unseen
        /\ platform' = [platform EXCEPT ![i] = AllAbsent]
    BY <1>7 DEF ForeignDelete, disk, history
  <2>2. cid \in exists' => cid \in exists /\ platform'[cid] = platform[cid]
    BY <2>1 DEF Inv, TypeOK
  <2> QED
    BY <2>1, <2>2 DEF SettleInv, call
<1>8. ASSUME NEW i \in Ids, NEW t \in Slots, NEW v \in Values, Foreign(i, t, v) PROVE SettleInv'
  <2>1. /\ control' = control /\ UNCHANGED call /\ exists' = exists /\ unseen' = unseen \union {t}
        /\ platform' = [platform EXCEPT ![i][t] = v]
    BY <1>8 DEF Foreign, disk
  <2>2. \A s \in Slots : s # t => platform'[cid][s] = platform[cid][s]
    BY <2>1 DEF Inv, TypeOK, Attrs
  <2>3. Recorded(control[cid]) \subseteq Slots
    BY DEF Recorded
  <2>4. \A s \in Recorded(control[cid]) \ unseen' :
          /\ s \notin unseen
          /\ Settles(control[cid], work, platform[cid], s)
               => Settles(control[cid], work, platform'[cid], s)
    BY <2>1, <2>2, <2>3 DEF Settles
  <2>5. \A s \in Slots \ unseen' : s \notin unseen /\ platform'[cid][s] = platform[cid][s]
    BY <2>1, <2>2
  <2> QED
    BY <2>1, <2>4, <2>5 DEF SettleInv, call
<1>9. CASE UNCHANGED vars
  BY <1>9 DEF SettleInv, vars, disk, server, call, history
<1> QED
  BY <1>1, <1>2, <1>3, <1>4, <1>5, <1>6, <1>7, <1>8, <1>9

\* Unless a journal was deleted, a call takes a pending edit from its file in memory only
\* when the platform holds what the file then says.
THEOREM SettleHolds == AnswersKept /\ Spec => []EndsInv
<1> SUFFICES ASSUME AnswersKept PROVE Spec => []EndsInv
  OBVIOUS
<1>1. Init => EndsInv
  BY DEF Init, EndsInv, SettleInv
<1>2. Inv /\ RefsInv /\ EndsInv /\ [Next]_vars => EndsInv'
  <2> SUFFICES ASSUME Inv, RefsInv, EndsInv, [Next]_vars, ~cleared' PROVE SettleInv'
    BY DEF EndsInv
  <2>1. ~cleared /\ NamesInv /\ SettleInv
    BY ClearedStays DEF RefsInv, EndsInv
  <2>2. ~ClearWal
    BY DEF ClearWal
  <2> QED
    BY <2>1, <2>2, CallsKeepSettle, OthersKeepSettle DEF Next
<1> QED
  BY <1>1, <1>2, TypesAndFiles, NamesHold, PTL DEF Spec

\* Only a push takes a pendingEdit from the file on disk, by writing what it holds in
\* memory.
LEMMA OnlyPushesEnd ==
  ASSUME Inv, NamesInv, SettleInv, [Next]_vars, NEW i \in FileIds, control'[i] # NoFile,
         ~(control[i].pendingEdit \subseteq control'[i].pendingEdit)
  PROVE  /\ pc \in {"record", "write"} /\ i = cid /\ control'[i] = work
<1> USE Bounds
<1>0. /\ i \in Ids /\ control[i] \in ControlFile /\ FileOK(control[i])
      /\ control'[i] # control[i] /\ control' # control
  BY FileFacts DEF Inv, FilesInv
<1>1. ASSUME NEW g \in ControlFile, Save(g), g.id = i => control[i].pendingEdit \subseteq g.pendingEdit
      PROVE  FALSE
  BY <1>0, <1>1, SavedFile DEF Inv
<1>2. CASE Replay
  <2>1. CASE BeginReplay \/ RewriteDoc \/ UnlinkJournal
    BY <1>0, <2>1 DEF BeginReplay, RewriteDoc, UnlinkJournal, disk
  <2>2. CASE RewriteControl
    BY <1>0, <2>2, RewriteControlEffect
  <2>3. CASE Rename
    <3>1. CASE i = journal
      BY <1>0, <2>3, <3>1, RenameEffect
    <3>2. CASE i # journal
      BY <1>0, <2>3, <3>2, RenameEffect
    <3> QED
      BY <3>1, <3>2
  <2> QED
    BY <1>2, <2>1, <2>2, <2>3 DEF Replay
<1>3. CASE CallStep
  <2>1. CASE CreateControl \/ AppendOperation \/ AssignEdges \/ PlatformRefuses
    BY <1>0, <2>1 DEF CreateControl, AppendOperation, AssignEdges, PlatformRefuses, disk
  <2>2. CASE \E c \in Classes : SetAttributes(c) \/ Mutate(c) \/ Flush(c)
    BY <1>0, <2>2 DEF SetAttributes, Mutate, Flush, disk
  <2>3. CASE \E fetched \in BOOLEAN : PushPlan(fetched)
    BY <1>0, <2>3 DEF PushPlan, disk
  <2>4. CASE FlipLifecycle
    <3> DEFINE g == [work EXCEPT !.lifecycle = "partially-pushed"]
    <3>1. /\ "partially-pushed" \in Lifecycles /\ cid \in Ids /\ HasWork /\ Save(g)
          /\ work = control[cid]
      BY <2>4 DEF Lifecycles, Inv, TypeOK, CallInv, FlipLifecycle, SettleInv
    <3>2. g \in ControlFile /\ g.id = cid /\ g.pendingEdit = work.pendingEdit
      BY <3>1, MovedFile DEF HasWork
    <3> HIDE DEF g
    <3> QED
      BY <1>1, <3>1, <3>2
  <2>5. CASE RecordAttributes \/ WriteFile
    <3>1. HasWork /\ Save(work) /\ pc \in {"record", "write"}
      BY <2>5 DEF RecordAttributes, WriteFile, Inv, CallInv
    <3>2. i = cid
      BY <1>1, <3>1 DEF HasWork
    <3> QED
      BY <3>1, <3>2, SavedFile DEF HasWork, Inv
  <2>6. CASE Finalise
    <3> DEFINE g == [control[cid] EXCEPT !.lifecycle = "brownfield"]
    <3>1. /\ HasFile /\ control[cid] \in ControlFile /\ FileOK(control[cid])
          /\ "brownfield" \in Lifecycles /\ cid \in Ids
      BY <2>6, FileFacts DEF Finalise, Inv, CallInv, FilesInv, HasFile, Lifecycles, TypeOK
    <3>2. g \in ControlFile /\ g.id = cid /\ g.pendingEdit = control[cid].pendingEdit
      BY <3>1, MovedFile DEF HasFile
    <3>3. Save(g)
      BY <1>0, <2>6 DEF Finalise
    <3> HIDE DEF g
    <3> QED
      BY <1>1, <3>2, <3>3
  <2> QED
    BY <1>3, <2>1, <2>2, <2>3, <2>4, <2>5, <2>6 DEF CallStep
<1>4. CASE ClearWal \/ Fail \/ UNCHANGED vars
  BY <1>0, <1>4 DEF ClearWal, Fail, vars, disk
<1>5. ASSUME NEW j \in Ids,
             StartGreenfield(j) \/ StartBrownfield(j) \/ Pull(j) \/ ForeignDelete(j)
      PROVE  FALSE
  BY <1>0, <1>5 DEF StartGreenfield, StartBrownfield, Pull, ForeignDelete, disk
<1>6. ASSUME NEW j \in Ids, Tombstone(j) PROVE FALSE
  <2> DEFINE g == [control[j] EXCEPT !.lifecycle = "tombstoned"]
  <2>1. "tombstoned" \in Lifecycles /\ j \in FileIds /\ Save(g) /\ Ready
    BY <1>6 DEF Lifecycles, Tombstone
  <2>2. control[j] \in ControlFile /\ FileOK(control[j]) /\ control[j].id = j
    BY <2>1, FileFacts DEF Inv, FilesInv, NamesInv, Ready, Idle
  <2>3. g \in ControlFile /\ g.id = j /\ g.pendingEdit = control[j].pendingEdit
    BY <2>1, <2>2, MovedFile
  <2> HIDE DEF g
  <2> QED
    BY <1>1, <2>1, <2>3
<1>7. ASSUME NEW j \in Ids, NEW c \in Classes, EditMade(j, c), Ready, j \in FileIds PROVE FALSE
  <2>1. PICK g \in ControlFile : Save(g) /\ g.id = control[j].id
                                 /\ g.pendingEdit = control[j].pendingEdit \union {c}
    BY <1>7 DEF EditMade
  <2>2. control[j].id = j
    BY <1>7 DEF Ready, Idle, NamesInv, Inv, FilesInv
  <2> QED
    BY <1>1, <2>1, <2>2
<1>8. ASSUME NEW j \in Ids, NEW c \in Classes, Promote(j, c) PROVE FALSE
  BY <1>7, <1>8, PromoteEffect DEF Promote
<1>9. ASSUME NEW j \in Ids, NEW s \in Slots, NEW v \in Values, SetLocalEdited(j, s, v) PROVE FALSE
  BY <1>7, <1>9, SetLocalEditedEffect, SlotClass DEF SetLocalEdited
<1>10. ASSUME NEW j \in Ids, NEW s \in Slots, NEW v \in Values, HandEdit(j, s, v) PROVE FALSE
  <2>1. PICK g \in ControlFile : control' = [control EXCEPT ![j] = g] /\ g.id = j
                                 /\ g.pendingEdit = control[j].pendingEdit
    BY <1>10, HandEditEffect
  <2>2. Save(g)
    BY <2>1 DEF Save
  <2> QED
    BY <1>1, <2>1, <2>2
<1>11. ASSUME NEW j \in Ids, NEW s \in Slots, NEW v \in Values, Foreign(j, s, v) PROVE FALSE
  BY <1>0, <1>11 DEF Foreign, disk
<1> QED
  BY <1>2, <1>3, <1>4, <1>5, <1>6, <1>8, <1>9, <1>10, <1>11 DEF Next

\* An edit leaves the file only when the platform holds what the file then says of it, or
\* somebody else has written it, for any attributes, crashes and other operators, as long
\* as the operator's answers are ones that Step D writes down.
THEOREM EditEndsSettledHolds == AnswersKept /\ Spec => EditEndsSettled
<1> SUFFICES ASSUME AnswersKept PROVE Spec => EditEndsSettled
  OBVIOUS
<1> DEFINE Ends ==
      \A i \in exists :
        control[i] # NoFile /\ control'[i] # NoFile /\ ~cleared =>
          \A s \in Recorded(control[i]) :
            s[1] \in control'[i].pendingEdit \/ s \in unseen
            \/ /\ control'[i].attributes[s] = platform[i][s]
               /\ \/ control'[i].attributes[s] = control[i].attributes[s]
                  \/ control[i].previous[s] # platform[i][s]
            \/ control[i].attributes[s] = control[i].previous[s]
<1>1. Inv /\ RefsInv /\ EndsInv /\ [Next]_vars => Ends
  <2> SUFFICES ASSUME Inv, RefsInv, EndsInv, [Next]_vars, NEW i \in exists,
                      control[i] # NoFile, control'[i] # NoFile, ~cleared,
                      NEW s \in Recorded(control[i]),
                      s[1] \notin control'[i].pendingEdit, s \notin unseen
               PROVE  Settles(control[i], control'[i], platform[i], s)
    BY DEF Settles
  <2>1. i \in FileIds /\ NamesInv /\ SettleInv
    BY DEF FileIds, RefsInv, EndsInv, Inv, TypeOK
  <2>2. ~(control[i].pendingEdit \subseteq control'[i].pendingEdit)
    BY DEF Recorded
  <2>3. pc \in {"record", "write"} /\ i = cid /\ control'[i] = work
    BY <2>1, <2>2, OnlyPushesEnd
  <2> QED
    BY <2>1, <2>3 DEF SettleInv
<1>2. EditEndsSettled <=> [][Ends]_vars
  BY DEF EditEndsSettled
<1>3. [Next]_vars /\ Inv /\ RefsInv /\ EndsInv => [Ends]_vars
  BY <1>1
<1>4. Spec => []EndsInv
  BY SettleHolds
<1> HIDE DEF Ends
<1> QED
  BY <1>2, <1>3, <1>4, TypesAndFiles, NamesHold, PTL DEF Spec
=============================================================================

---------------------------- MODULE MCClassIdentity ----------------------------
(*****************************************************************************)
(* Instances of ClassIdentity for TLC.  Which class lists the releases of a  *)
(* module may declare decides which of upsertClass's five cases meet.        *)
(*****************************************************************************)
EXTENDS ClassIdentity

C(id, name) == [id |-> id, name |-> name]

\* Every list of at most two classes: reuse, rename, swap, double declaration.
AllLists == [m \in Modules |-> {<<>>} \cup {<<c>> : c \in Entries} \cup (Entries \X Entries)]

\* One class, with any id and name.
SingleLists == [m \in Modules |-> {<<c>> : c \in Entries}]

\* One class, or none.
OneOrNone == [m \in Modules |-> {<<>>, <<C(1, "A")>>}]

\* Two classes of fixed ids; the second, with the first renamed to its name.
RenameLists == [m \in Modules |-> {<<C(1, "A"), C(2, "B")>>, <<C(1, "B")>>}]

NoInitNodes == <<>>

\* One class twice, orphaned and active, as platforms before stable ids left it,
\* and another module's class of the same name.
Legacy == <<[owner |-> "m1", name |-> "A", id |-> 1, live |-> FALSE],
            [owner |-> "m1", name |-> "A", id |-> 2, live |-> TRUE],
            [owner |-> "m2", name |-> "A", id |-> 3, live |-> TRUE]>>

\* Releases after which the clean-up has something to merge: the legacy class
\* under either id, and under the orphan's id with a new name.
LegacyLists == [m \in Modules |->
    IF m = "m1" THEN {<<C(1, "A")>>, <<C(2, "A")>>, <<C(1, "B")>>} ELSE {<<C(3, "A")>>}]
================================================================================

---------------------------- MODULE AttributeSheet ----------------------------
(***************************************************************************)
(* What reviewers are promised of the bibs and colours of photos: what was *)
(* read once stays on record, a struck attribute stays struck, and a       *)
(* correction changes one value of one attribute.  A step is stated over   *)
(* the sheet before and after it.                                          *)
(***************************************************************************)
CONSTANTS Ids, Readings     \* Readings: the values of the fields of an attribute

VARIABLE sheet              \* id -> what was read, what is shown, and struck

SheetInit == sheet = [a \in {} |-> {}]

Entry(r) == [original |-> r, shown |-> r, struck |-> FALSE]

\* New attributes come in, shown as they were read.
Enter(before, after) ==
    /\ DOMAIN before \subseteq DOMAIN after
    /\ DOMAIN after \subseteq Ids
    /\ \A a \in DOMAIN after :
         IF a \in DOMAIN before THEN after[a] = before[a]
         ELSE after[a].original \in Readings /\ after[a] = Entry(after[a].original)

Strike(before, after, a) == after = [before EXCEPT ![a].struck = TRUE]

\* A correction; to the value that was read, it takes earlier ones back.
Amend(before, after, a, f) ==
    /\ after = [before EXCEPT ![a].shown[f] = after[a].shown[f]]
    /\ \E r \in Readings : f \in DOMAIN r /\ r[f] = after[a].shown[f]

SheetStep(before, after) ==
    \/ Enter(before, after)
    \/ /\ DOMAIN after = DOMAIN before
       /\ \E a \in DOMAIN before :
            \/ Strike(before, after, a)
            \/ \E f \in DOMAIN before[a].original : Amend(before, after, a, f)

SheetNext == \E before \in {sheet}, after \in {sheet'} : SheetStep(before, after)
=============================================================================

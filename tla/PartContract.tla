---------------------------- MODULE PartContract ----------------------------
(***************************************************************************)
(* What the bridge promises of each part of a request, whatever runs at    *)
(* the same time, is lost, late or dies: a part is begun and becomes one   *)
(* document, once; it is refused only if there is none; its signers are    *)
(* mailed once, and only as the draft that clients were shown; what is     *)
(* shown follows the document and is announced as it changes; and the part *)
(* is given up only while clients have seen no more than a draft, when its *)
(* document is gone.  Each step is atomic and of one part; how long        *)
(* anything takes is left open.                                            *)
(***************************************************************************)
EXTENDS Naturals

CONSTANTS
  Parts,
  PeopleSend, \* whether people send drafts inside Documenso
  Announced   \* whether the Portal is told what clients are shown

VARIABLES
  stage,     \* what the bridge made of the part
  document,  \* the status of its document, "none" before there is one
  shown,     \* the status clients are shown
  told,      \* the statuses the outbox has a row for
  mailed     \* whether a distribute may have reached Documenso

vars == <<stage, document, shown, told, mailed>>

Final == {"COMPLETED", "REJECTED", "CANCELLED"}
Live == {"DRAFT", "PENDING"} \union Final

Rank(s) == CASE s = "none" -> 0 [] s = "DRAFT" -> 1 [] s = "PENDING" -> 2
             [] s \in Final -> 3 [] OTHER -> 4

\* A document with status t has been at s, or has skipped it.
Passed(s, t) == s = t \/ Rank(s) < Rank(t)

Init ==
  /\ stage = [p \in Parts |-> "prepared"]
  /\ document = [p \in Parts |-> "none"]
  /\ shown = [p \in Parts |-> "none"]
  /\ told = [p \in Parts |-> {}]
  /\ mailed = [p \in Parts |-> FALSE]

Become(p, from, to) == stage[p] = from /\ stage' = [stage EXCEPT ![p] = to]
Turn(p, s) == document' = [document EXCEPT ![p] = s]

Begin(p) ==
  /\ Become(p, "prepared", "begun")
  /\ UNCHANGED <<document, shown, told, mailed>>

Create(p) ==
  /\ stage[p] = "begun" /\ document[p] = "none"
  /\ Turn(p, "DRAFT")
  /\ UNCHANGED <<stage, shown, told, mailed>>

Refuse(p) ==
  /\ document[p] = "none"
  /\ Become(p, "begun", "refused")
  /\ UNCHANGED <<document, shown, told, mailed>>

Link(p) ==
  /\ document[p] # "none"
  /\ Become(p, "begun", "linked")
  /\ UNCHANGED <<document, shown, told, mailed>>

Show(p, s) ==
  /\ stage[p] = "linked"
  /\ Rank(shown[p]) < Rank(s) /\ Passed(s, document[p])
  /\ shown' = [shown EXCEPT ![p] = s]
  /\ told' = IF Announced THEN [told EXCEPT ![p] = @ \union {s}] ELSE told
  /\ UNCHANGED <<stage, document, mailed>>

\* The distribute is applied now, or it may be applied later.
Mail(p) ==
  /\ stage[p] = "linked" /\ shown[p] = "DRAFT" /\ ~mailed[p]
  /\ mailed' = [mailed EXCEPT ![p] = TRUE]
  /\ \/ document[p] = "DRAFT" /\ Turn(p, "PENDING")
     \/ UNCHANGED document
  /\ UNCHANGED <<stage, shown, told>>

Discard(p) ==
  /\ \/ document[p] = "none"
        /\ (Become(p, "prepared", "discarded") \/ Become(p, "refused", "discarded"))
     \/ document[p] = "DELETED" /\ shown[p] = "DRAFT" /\ Become(p, "linked", "discarded")
  /\ UNCHANGED <<document, shown, told, mailed>>

\* People, and what the bridge asked Documenso for earlier.
Advance(p) ==
  /\ \/ document[p] = "DRAFT" /\ (mailed[p] \/ PeopleSend) /\ Turn(p, "PENDING")
     \/ document[p] = "PENDING" /\ \E s \in Final : Turn(p, s)
     \/ /\ document[p] = "DRAFT" \/ (document[p] \in Live /\ stage[p] = "linked")
        /\ Turn(p, "DELETED")
  /\ UNCHANGED <<stage, shown, told, mailed>>

Step(p) ==
  \/ Begin(p) \/ Create(p) \/ Refuse(p) \/ Link(p) \/ (\E s \in Live : Show(p, s))
  \/ Mail(p) \/ Discard(p) \/ Advance(p)

Next == \E p \in Parts : Step(p)

Spec == Init /\ [][Next]_vars
=============================================================================

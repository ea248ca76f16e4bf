---------------------------- MODULE VersionLedger ----------------------------
(***************************************************************************)
(* What publication promises, with its handlers left out: a ledger of      *)
(* versions numbered from 1, one indivisible event each.  A publication    *)
(* takes the rules in force at that instant, adds to them or supersedes    *)
(* some of them, and appends the result; an import appends rules of its    *)
(* own.  A version meant to be in force retires every other version.       *)
(***************************************************************************)
EXTENDS Naturals

CONSTANTS
  Rules,
  Contents,    (* what a publication may say of a rule *)
  Imported     (* what an import says of it            *)

VARIABLE ledger   (* [active, rules] by version number *)

Absent == "absent"

InForce == {n \in DOMAIN ledger : ledger[n].active}

\* The rules in force: those of the active version, if there is one.
Base == IF InForce = {} THEN [r \in Rules |-> Absent]
        ELSE ledger[CHOOSE n \in InForce : TRUE].rules

Overlay(update) ==
  [r \in Rules |-> IF update[r] = Absent THEN Base[r] ELSE update[r]]

Init == ledger = [n \in {} |-> 0]

Append(last, rules, active) ==
  ledger' = [n \in 1 .. last + 1 |->
               IF n = last + 1 THEN [active |-> active, rules |-> rules]
               ELSE [ledger[n] EXCEPT !.active = @ /\ ~active]]

\* Version numbers have no gaps and none is used twice.
Next ==
  \E last \in DOMAIN ledger \cup {0}, active \in BOOLEAN :
    /\ DOMAIN ledger = 1 .. last
    /\ DOMAIN ledger' = 1 .. last + 1
    /\ \/ \E update \in [Rules -> Contents \cup {Absent}] :
            Append(last, Overlay(update), active)
       \/ \E rules \in [Rules -> {Imported, Absent}] : Append(last, rules, active)

Spec == Init /\ [][Next]_ledger
=============================================================================

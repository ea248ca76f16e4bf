-------------------------- MODULE DecisionRegister --------------------------
(***************************************************************************)
(* What an Idempotency-Key promises its caller, with the service left out: *)
(* the key is a register that is opened once, settled at most once, to a   *)
(* verdict or to nothing, and from then on shows everyone who asks the     *)
(* verdict it was settled to.  Deleting the project removes every key.     *)
(***************************************************************************)
CONSTANTS Keys, Envelopes, NoVerdict

VARIABLES
  register,   (* [state, verdict] of each key                       *)
  seen        (* the verdicts anyone was shown under each key       *)

vars == <<register, seen>>

Register == [state : {"unset", "open", "settled", "void", "removed"},
             verdict : Envelopes \cup {NoVerdict}]

Cell(state) == [state |-> state, verdict |-> NoVerdict]

TypeOK ==
  /\ register \in [Keys -> Register]
  /\ seen \in [Keys -> SUBSET Envelopes]

Init ==
  /\ register = [k \in Keys |-> Cell("unset")]
  /\ seen = [k \in Keys |-> {}]

Move(k, from, cell) ==
  /\ register[k].state = from
  /\ register' = [register EXCEPT ![k] = cell]

Open(k) == Move(k, "unset", Cell("open")) /\ UNCHANGED seen

\* The one who settles the key is shown the verdict in the same step.
Settle(k) ==
  \E v \in Envelopes :
    /\ Move(k, "open", [state |-> "settled", verdict |-> v])
    /\ seen' = [seen EXCEPT ![k] = @ \cup {v}]

Void(k) == Move(k, "open", Cell("void")) /\ UNCHANGED seen

See(k) ==
  /\ register[k].state = "settled"
  /\ seen' = [seen EXCEPT ![k] = @ \cup {register[k].verdict}]
  /\ UNCHANGED register

Remove ==
  /\ register' = [k \in Keys |-> Cell("removed")]
  /\ UNCHANGED seen

Next ==
  \/ \E k \in Keys : Open(k) \/ Settle(k) \/ Void(k) \/ See(k)
  \/ Remove

Spec == Init /\ [][Next]_vars

\* One key, one verdict: nobody is ever shown two different verdicts under it,
\* which is what "the original receipt is replayed" means to its callers.
OneVerdictPerKey == \A k \in Keys : \A v, w \in seen[k] : v = w
=============================================================================

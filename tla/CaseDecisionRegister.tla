------------------------ MODULE CaseDecisionRegister ------------------------
(***************************************************************************)
(* CaseDecision implements DecisionRegister: seen through its rows, every  *)
(* Idempotency-Key is a register that is settled once.                     *)
(***************************************************************************)
EXTENDS CaseDecision

StateOf(status) ==
  CASE status = "pending" -> "open"
    [] status = "completed" -> "settled"
    [] status = "failed" -> "void"

\* The register of a key is the row stored under it.
KeyRegister ==
  [k \in Keys |->
     CASE project = "deleted" -> [state |-> "removed", verdict |-> NoVerdict]
       [] project = "live" /\ RowsForKey(k) = {} -> [state |-> "unset", verdict |-> NoVerdict]
       [] OTHER -> LET row == rows[CHOOSE d \in RowsForKey(k) : TRUE]
                   IN  [state |-> StateOf(row.status), verdict |-> row.response]]

KeySeen == [k \in Keys |-> {s[2] : s \in {t \in shown : input[t[1]].key = k}}]

Promise == INSTANCE DecisionRegister WITH register <- KeyRegister, seen <- KeySeen

\* Every step of the service is a step of the register its caller was promised,
\* as long as no commit takes effect without being acknowledged.
KeysAreRegisters == Promise!Spec
=============================================================================

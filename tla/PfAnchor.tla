------------------------------ MODULE PfAnchor ------------------------------
(***************************************************************************)
(* The exit provider of a macOS member (node/src/firewall/pf.rs): its      *)
(* anchor's rules, its forwarding lease and the enable reference that      *)
(* "pfctl -E" takes and only "pfctl -X <token>" gives back.  The token is  *)
(* known only from pfctl's output, so the output goes to a receipt file    *)
(* and a journal says what is under way.  Every durable write is a step of *)
(* its own and the process may die between any two; a pfctl it has started *)
(* then runs on.  Operations on the journal exclude each other by a file   *)
(* lock, so one runs at a time.  The switches behind the lease are         *)
(* modelled in Provider.                                                   *)
(***************************************************************************)
EXTENDS Integers, TLAPS

CONSTANTS
    None,           \* no journal, no token, no receipt
    MaxTokens,      \* enable references the kernel hands out
    MaxFaults       \* failing commands and writes, killed processes

VARIABLES
    journal,        \* <iface>.pf.json
    receipt,        \* <iface>.enable.log: absent, empty, or a whole token line
    refs,           \* the references the kernel counts for this member
    rules,          \* the anchor has rules
    lease,          \* the forwarding lease of the member
    op, at,         \* the operation in progress and its next step
    orphan,         \* a pfctl -E whose parent died
    issued, faults

vars == <<journal, receipt, refs, rules, lease, op, at, orphan, issued, faults>>

Tokens == 1..MaxTokens
Empty == 0          \* a receipt without a whole token line
Owner == [token : Tokens \cup {None}, acquiring : BOOLEAN, retiring : BOOLEAN]
Steps == {"idle", "load", "recover", "acquire", "clear", "intend", "open", "enable",
          "import", "rules", "retire", "flush", "release", "recover2", "disable",
          "forget", "unlog", "unlink"}

PfTypeOK ==
    /\ journal \in {None} \cup Owner
    /\ receipt \in {None, Empty} \cup Tokens
    /\ refs \subseteq Tokens
    /\ rules \in BOOLEAN /\ lease \in BOOLEAN /\ orphan \in BOOLEAN
    /\ op \in {"none", "up", "down"} /\ at \in Steps
    /\ issued \in 0..MaxTokens /\ faults \in 0..MaxFaults

Init ==
    /\ journal = None /\ receipt = None /\ refs = {}
    /\ rules = FALSE /\ lease = FALSE /\ orphan = FALSE
    /\ op = "none" /\ at = "idle"
    /\ issued = 0 /\ faults = 0

-----------------------------------------------------------------------------
At(step) == op # "none" /\ at = step
Go(step) == at' = step /\ UNCHANGED <<op, orphan, issued, faults>>
Done == op' = "none" /\ at' = "idle"
Return == Done /\ UNCHANGED <<orphan, issued, faults>>

(* up_with and down_with; a retiring journal is cleaned up first. *)
Up ==
    /\ op = "none" /\ op' = "up"
    /\ at' = IF journal # None /\ journal.retiring THEN "retire" ELSE "load"
    /\ UNCHANGED <<journal, receipt, refs, rules, lease, orphan, issued, faults>>

Down ==
    /\ op = "none" /\ journal # None
    /\ op' = "down" /\ at' = "retire"
    /\ UNCHANGED <<journal, receipt, refs, rules, lease, orphan, issued, faults>>

(* Without a journal, a lease or rules in the anchor are not ours. *)
Load ==
    /\ At("load")
    /\ \/ journal = None /\ (lease \/ rules) /\ Return /\ UNCHANGED journal
       \/ /\ journal = None /\ ~lease /\ ~rules
          /\ journal' = [token |-> None, acquiring |-> FALSE, retiring |-> FALSE]
          /\ Go("recover")
       \/ journal # None /\ UNCHANGED journal /\ Go("recover")
    /\ UNCHANGED <<receipt, refs, rules, lease>>

(* An absent receipt: the command never ran.  An empty one: no way to      *)
(* tell, so the journal stays as it is and the operation fails.            *)
RecoverToken(next) ==
    /\ CASE ~journal.acquiring -> Go(next) /\ UNCHANGED journal
         [] journal.acquiring /\ receipt = Empty -> Return /\ UNCHANGED journal
         [] OTHER -> /\ journal' = [journal EXCEPT !.token = receipt, !.acquiring = FALSE]
                     /\ Go(next)
    /\ UNCHANGED <<receipt, refs, rules, lease>>

Recover == At("recover") /\ RecoverToken("acquire")

Acquire ==
    /\ At("acquire") /\ lease' = TRUE
    /\ Go(IF journal.token = None THEN "clear" ELSE "rules")
    /\ UNCHANGED <<journal, receipt, refs, rules>>

ClearReceipt ==
    /\ At("clear") /\ receipt' = None /\ Go("intend")
    /\ UNCHANGED <<journal, refs, rules, lease>>

Intend ==
    /\ At("intend") /\ journal' = [journal EXCEPT !.acquiring = TRUE] /\ Go("open")
    /\ UNCHANGED <<receipt, refs, rules, lease>>

(* run_recorded opens the receipt, then spawns; a failed spawn removes it. *)
OpenReceipt ==
    /\ At("open") /\ receipt' = Empty /\ Go("enable")
    /\ UNCHANGED <<journal, refs, rules, lease>>

(* How pfctl -E may end: with its token in the receipt, rejected by the    *)
(* kernel, or killed with or without a reference it had no time to print.  *)
Granted == /\ issued < MaxTokens /\ issued' = issued + 1
           /\ refs' = refs \cup {issued + 1}
Pfctl ==
    \/ Granted /\ receipt' = issued + 1
    \/ Granted /\ UNCHANGED receipt
    \/ UNCHANGED <<issued, refs, receipt>>

Enable ==
    /\ At("enable")
    /\ Pfctl
    /\ \/ at' = "import" /\ UNCHANGED <<op, journal, faults>>
       \/ \* the kernel said no: certain that nothing was acquired
          /\ refs' = refs /\ faults < MaxFaults /\ faults' = faults + 1
          /\ journal' = [journal EXCEPT !.acquiring = FALSE]
          /\ Done
    /\ UNCHANGED <<rules, lease, orphan>>

Import ==
    /\ At("import") /\ RecoverToken("rules")

LoadRules ==
    /\ At("rules")
    /\ rules' = (journal.token # None)      \* else: no receipt, an error
    /\ Return
    /\ UNCHANGED <<journal, receipt, refs, lease>>

(* cleanup *)
Retire ==
    /\ At("retire") /\ journal' = [journal EXCEPT !.retiring = TRUE] /\ Go("flush")
    /\ UNCHANGED <<receipt, refs, rules, lease>>

Flush ==
    /\ At("flush") /\ rules' = FALSE /\ Go("release")
    /\ UNCHANGED <<journal, receipt, refs, lease>>

Release ==
    /\ At("release") /\ lease' = FALSE /\ Go("recover2")
    /\ UNCHANGED <<journal, receipt, refs, rules>>

Recover2 == At("recover2") /\ RecoverToken("disable")

(* A token the kernel no longer knows was released before a crash. *)
Disable ==
    /\ At("disable") /\ refs' = refs \ {journal.token} /\ Go("forget")
    /\ UNCHANGED <<journal, receipt, rules, lease>>

Forget ==
    /\ At("forget")
    /\ journal' = [journal EXCEPT !.token = None, !.acquiring = FALSE]
    /\ Go("unlog")
    /\ UNCHANGED <<receipt, refs, rules, lease>>

RemoveReceipt ==
    /\ At("unlog") /\ receipt' = None /\ Go("unlink")
    /\ UNCHANGED <<journal, refs, rules, lease>>

RemoveJournal ==
    /\ At("unlink") /\ journal' = None
    /\ IF op = "up" THEN Go("load") ELSE Return
    /\ UNCHANGED <<receipt, refs, rules, lease>>

-----------------------------------------------------------------------------
(* Any other step fails: the error ends the operation. *)
Fault ==
    /\ op # "none" /\ at # "enable" /\ faults < MaxFaults
    /\ faults' = faults + 1 /\ Done
    /\ UNCHANGED <<journal, receipt, refs, rules, lease, orphan, issued>>

Crash ==
    /\ op # "none" /\ faults < MaxFaults
    /\ faults' = faults + 1 /\ Done
    /\ orphan' = (orphan \/ at = "enable")
    /\ UNCHANGED <<journal, receipt, refs, rules, lease, issued>>

(* The orphan writes to the receipt it was given, if that is still there. *)
OrphanEnds ==
    /\ orphan /\ orphan' = FALSE
    /\ \/ Granted /\ receipt' = IF receipt = None THEN None ELSE issued + 1
       \/ UNCHANGED <<issued, refs, receipt>>
    /\ UNCHANGED <<journal, rules, lease, op, at, faults>>

(* References, rules and switches do not survive a boot, and the journals  *)
(* of another boot's directory are not read.                               *)
Reboot ==
    /\ op = "none" /\ issued > 0
    /\ journal' = None /\ receipt' = None /\ refs' = {}
    /\ rules' = FALSE /\ lease' = FALSE /\ orphan' = FALSE
    /\ op' = "none" /\ at' = "idle"
    /\ UNCHANGED <<issued, faults>>

Next ==
    \/ Up \/ Down \/ Load \/ Recover \/ Acquire \/ ClearReceipt \/ Intend \/ OpenReceipt
    \/ Enable \/ Import \/ LoadRules
    \/ Retire \/ Flush \/ Release \/ Recover2 \/ Disable \/ Forget
    \/ RemoveReceipt \/ RemoveJournal
    \/ Fault \/ Crash \/ OrphanEnds \/ Reboot

Spec == Init /\ [][Next]_vars

-----------------------------------------------------------------------------
(* A member holds at most one enable reference, and one that it holds can  *)
(* be given back: the journal names it, or says that an acquisition is     *)
(* under way whose receipt is still there, so that no later run of up_with *)
(* takes a second one.  This is what the order of journal, receipt and     *)
(* command is for, whatever dies in between.                               *)
PfReferenceAccounted ==
    refs # {} =>
        /\ \E t \in Tokens : refs = {t}
        /\ journal # None
        /\ \/ journal.token \in refs
           \/ journal.acquiring /\ receipt # None

(* Rules in the anchor imply a reference that keeps pf enabled and a lease *)
(* that keeps forwarding on: cleanup takes the rules away first.           *)
PfRulesBacked == rules => lease /\ refs # {}

-----------------------------------------------------------------------------
(* That both hold for any number of tokens and of faults.                  *)

(* What the steps of up_with and of cleanup know of the journal: each holds what the
   ones before it have established, as operations exclude each other. *)
Beginning == {"recover", "acquire", "clear", "intend", "open", "enable", "import", "rules"}
Cleaning == {"flush", "release", "recover2", "disable", "forget", "unlog", "unlink"}
Settling == {"acquire", "clear", "intend", "rules", "disable", "forget", "unlog", "unlink"}

AtStep ==
    /\ at \in Beginning \cup Cleaning \cup {"retire"} => journal # None
    /\ at \in Beginning => ~journal.retiring
    /\ at = "load" /\ journal # None => ~journal.retiring
    /\ at \in Cleaning => journal.retiring
    /\ at \in Settling => ~journal.acquiring
    /\ at \in {"open", "enable", "import"} => journal.acquiring
    /\ at \in {"clear", "intend", "unlog", "unlink"} => journal.token = None
    /\ at \in {"intend", "open", "unlink"} => receipt = None
    /\ at = "enable" => receipt = Empty
    /\ at = "import" => receipt # None
    /\ at \in {"clear", "intend", "open", "enable", "import", "rules"} => lease
    /\ at \in Cleaning \ {"flush"} => ~rules
    /\ at \in {"clear", "intend", "open", "enable", "forget", "unlog", "unlink"} => refs = {}
    /\ at \in {"enable", "import"} => ~orphan

(* What holds between steps: while an acquisition is under way no token is known, and
   a whole receipt names the one reference; a journal that knows a token has just that
   reference, or, once it retires, may have given it back. *)
Journaled ==
    /\ journal = None => refs = {} /\ ~orphan
    /\ journal # None =>
         /\ journal.acquiring => /\ journal.token = None
                                 /\ receipt = None => refs = {}
                                 /\ receipt \in Tokens => refs = {receipt}
                                 /\ refs # {} => \E t \in Tokens : refs = {t}
         /\ ~journal.acquiring => /\ journal.token = None => refs = {}
                                  /\ refs \subseteq {journal.token}
                                  /\ journal.token # None /\ ~journal.retiring => refs = {journal.token}
    /\ orphan => journal.acquiring /\ receipt = Empty /\ refs = {}

Backed == rules => lease /\ refs # {}

PfInv == PfTypeOK /\ AtStep /\ Journaled /\ Backed

(* Constants of any size; None is neither a number nor a journal. *)
PfConstants == MaxTokens \in Nat /\ MaxFaults \in Nat /\ None \notin Int /\ None \notin Owner

(* At the start there is no journal, no receipt and no reference. *)
LEMMA PfStart ==
    ASSUME PfConstants, Init
    PROVE  PfInv
<1>1. PfTypeOK
  <2>1. issued \in 0..MaxTokens /\ faults \in 0..MaxFaults
    BY SMT DEF PfConstants, Init
  <2> QED BY <2>1, Zenon DEF Init, PfTypeOK, Steps
<1>2. AtStep
  BY DEF Init, AtStep, Beginning, Cleaning, Settling
<1>3. Journaled /\ Backed
  BY SMTT(30) DEF Init, Journaled, Backed
<1> QED BY <1>1, <1>2, <1>3 DEF PfInv

(* Every step of up_with and cleanup, and every crash, failure and reboot, keeps it. *)
LEMMA PfStep ==
    ASSUME PfConstants, PfInv, [Next]_vars
    PROVE  PfInv'
<1> USE DEF PfConstants, PfInv, PfTypeOK, Tokens, Empty, Owner, Steps, At,
            AtStep, Journaled, Backed, Beginning, Cleaning, Settling
<1>1. CASE Up
  BY <1>1 DEF Up
<1>2. CASE Down
  BY <1>2 DEF Down
<1>3. CASE Load
  <2>1. CASE journal = None /\ (lease \/ rules) /\ Return /\ UNCHANGED journal
    BY <1>3, <2>1 DEF Load, Return, Done
  <2>2. CASE journal = None /\ ~lease /\ ~rules /\ Go("recover")
             /\ journal' = [token |-> None, acquiring |-> FALSE, retiring |-> FALSE]
    <3>1. journal' \in Owner /\ journal'.token = None /\ ~journal'.acquiring /\ ~journal'.retiring
      BY <2>2
    <3>2. UNCHANGED <<receipt, refs, rules, lease, op, orphan, issued, faults>> /\ at' = "recover"
      BY <1>3, <2>2 DEF Load, Go
    <3>3. PfTypeOK' /\ Backed' /\ AtStep'
      BY <2>2, <3>1, <3>2
    <3>4. Journaled'
      BY <2>2, <3>1, <3>2
    <3> QED BY <3>3, <3>4
  <2>3. CASE journal # None /\ UNCHANGED journal /\ Go("recover")
    BY <1>3, <2>3 DEF Load, Go
  <2> QED BY <1>3, <2>1, <2>2, <2>3 DEF Load
<1>4. CASE Recover
  <2>1. PICK next \in {"acquire"} : RecoverToken(next)
    BY <1>4 DEF Recover
  <2>2. CASE ~journal.acquiring
    BY <1>4, <2>1, <2>2 DEF Recover, RecoverToken, Go
  <2>3. CASE journal.acquiring /\ receipt = Empty
    BY <1>4, <2>1, <2>3 DEF Recover, RecoverToken, Return, Done
  <2>4. CASE journal.acquiring /\ receipt # Empty
    <3>1. journal \in Owner /\ journal' \in Owner /\ ~journal'.acquiring
          /\ journal'.token = receipt /\ journal'.retiring = journal.retiring
      BY <1>4, <2>1, <2>4 DEF Recover, RecoverToken
    <3>2. PfTypeOK' /\ Backed'
      BY <1>4, <2>1, <2>4, <3>1 DEF Recover, RecoverToken, Go
    <3>3. AtStep'
      <4>1. UNCHANGED <<receipt, refs, rules, lease, op, orphan, issued, faults>> /\ at' = "acquire"
        BY <2>1, <2>4 DEF RecoverToken, Go
      <4> QED BY <1>4, <3>1, <4>1 DEF Recover
    <3>4. Journaled'
      BY <1>4, <2>1, <2>4, <3>1 DEF Recover, RecoverToken, Go
    <3> QED BY <3>2, <3>3, <3>4
  <2> QED BY <2>2, <2>3, <2>4
<1>5. CASE Acquire
  BY <1>5 DEF Acquire, Go
<1>6. CASE ClearReceipt
  BY <1>6 DEF ClearReceipt, Go
<1>7. CASE Intend
  <2>1. journal \in Owner /\ journal' \in Owner /\ journal'.acquiring
        /\ journal'.token = journal.token /\ journal'.retiring = journal.retiring
    BY <1>7 DEF Intend
  <2>2. PfTypeOK' /\ Backed'
    BY <1>7, <2>1 DEF Intend, Go
  <2>3. AtStep'
    BY <1>7, <2>1 DEF Intend, Go
  <2>4. Journaled'
    BY <1>7, <2>1 DEF Intend, Go
  <2> QED BY <2>2, <2>3, <2>4
<1>8. CASE OpenReceipt
  BY <1>8 DEF OpenReceipt, Go
<1>9. CASE Enable
  <2>1. journal \in Owner /\ journal.acquiring /\ journal.token = None /\ ~journal.retiring
        /\ receipt = Empty /\ refs = {} /\ ~orphan /\ ~rules
    BY <1>9 DEF Enable
  <2>2. CASE at' = "import" /\ UNCHANGED <<op, journal, faults>>
    <3>1. CASE Granted /\ receipt' = issued + 1
      BY <1>9, <2>1, <2>2, <3>1 DEF Enable, Granted
    <3>2. CASE Granted /\ UNCHANGED receipt
      BY <1>9, <2>1, <2>2, <3>2 DEF Enable, Granted
    <3>3. CASE UNCHANGED <<issued, refs, receipt>>
      BY <1>9, <2>1, <2>2, <3>3 DEF Enable
    <3> QED BY <1>9, <3>1, <3>2, <3>3 DEF Enable, Pfctl
  <2>3. CASE /\ refs' = refs /\ faults < MaxFaults /\ faults' = faults + 1
             /\ journal' = [journal EXCEPT !.acquiring = FALSE] /\ Done
    <3>1. UNCHANGED <<issued, refs, receipt>>
      BY <1>9, <2>1, <2>3 DEF Enable, Pfctl, Granted
    <3>2. journal' \in Owner /\ ~journal'.acquiring /\ journal'.token = None /\ ~journal'.retiring
      BY <2>1, <2>3
    <3> QED BY <1>9, <2>1, <2>3, <3>1, <3>2 DEF Enable, Done
  <2> QED BY <1>9, <2>2, <2>3 DEF Enable
<1>10. CASE Import
  <2>1. PICK next \in {"rules"} : RecoverToken(next)
    BY <1>10 DEF Import
  <2>2. CASE ~journal.acquiring
    BY <1>10, <2>1, <2>2 DEF Import, RecoverToken, Go
  <2>3. CASE journal.acquiring /\ receipt = Empty
    BY <1>10, <2>1, <2>3 DEF Import, RecoverToken, Return, Done
  <2>4. CASE journal.acquiring /\ receipt # Empty
    <3>1. journal \in Owner /\ journal' \in Owner /\ ~journal'.acquiring
          /\ journal'.token = receipt /\ journal'.retiring = journal.retiring
      BY <1>10, <2>1, <2>4 DEF Import, RecoverToken
    <3>2. PfTypeOK' /\ Backed'
      BY <1>10, <2>1, <2>4, <3>1 DEF Import, RecoverToken, Go
    <3>3. AtStep'
      <4>1. UNCHANGED <<receipt, refs, rules, lease, op, orphan, issued, faults>> /\ at' = "rules"
        BY <2>1, <2>4 DEF RecoverToken, Go
      <4> QED BY <1>10, <3>1, <4>1 DEF Import
    <3>4. Journaled'
      BY <1>10, <2>1, <2>4, <3>1 DEF Import, RecoverToken, Go
    <3> QED BY <3>2, <3>3, <3>4
  <2> QED BY <2>2, <2>3, <2>4
<1>11. CASE LoadRules
  BY <1>11 DEF LoadRules, Return, Done
<1>12. CASE Retire
  <2>1. journal \in Owner /\ journal' \in Owner /\ journal'.retiring
        /\ journal'.token = journal.token /\ journal'.acquiring = journal.acquiring
    BY <1>12 DEF Retire
  <2>2. PfTypeOK' /\ Backed'
    BY <1>12, <2>1 DEF Retire, Go
  <2>3. AtStep'
    BY <1>12, <2>1 DEF Retire, Go
  <2>4. Journaled'
    BY <1>12, <2>1 DEF Retire, Go
  <2> QED BY <2>2, <2>3, <2>4
<1>13. CASE Flush
  BY <1>13 DEF Flush, Go
<1>14. CASE Release
  BY <1>14 DEF Release, Go
<1>15. CASE Recover2
  <2>1. PICK next \in {"disable"} : RecoverToken(next)
    BY <1>15 DEF Recover2
  <2>2. CASE ~journal.acquiring
    BY <1>15, <2>1, <2>2 DEF Recover2, RecoverToken, Go
  <2>3. CASE journal.acquiring /\ receipt = Empty
    BY <1>15, <2>1, <2>3 DEF Recover2, RecoverToken, Return, Done
  <2>4. CASE journal.acquiring /\ receipt # Empty
    <3>1. journal \in Owner /\ journal' \in Owner /\ ~journal'.acquiring
          /\ journal'.token = receipt /\ journal'.retiring = journal.retiring
      BY <1>15, <2>1, <2>4 DEF Recover2, RecoverToken
    <3>2. PfTypeOK' /\ Backed'
      BY <1>15, <2>1, <2>4, <3>1 DEF Recover2, RecoverToken, Go
    <3>3. AtStep'
      <4>1. UNCHANGED <<receipt, refs, rules, lease, op, orphan, issued, faults>> /\ at' = "disable"
        BY <2>1, <2>4 DEF RecoverToken, Go
      <4> QED BY <1>15, <3>1, <4>1 DEF Recover2
    <3>4. Journaled'
      BY <1>15, <2>1, <2>4, <3>1 DEF Recover2, RecoverToken, Go
    <3> QED BY <3>2, <3>3, <3>4
  <2> QED BY <2>2, <2>3, <2>4
<1>16. CASE Disable
  BY <1>16 DEF Disable, Go
<1>17. CASE Forget
  BY <1>17 DEF Forget, Go
<1>18. CASE RemoveReceipt
  BY <1>18 DEF RemoveReceipt, Go
<1>19. CASE RemoveJournal
  BY <1>19 DEF RemoveJournal, Go, Return, Done
<1>20. CASE Fault
  BY <1>20 DEF Fault, Done
<1>21. CASE Crash
  BY <1>21 DEF Crash, Done
<1>22. CASE OrphanEnds
  <2>1. journal \in Owner /\ journal.acquiring /\ receipt = Empty /\ refs = {} /\ ~rules
        /\ at \notin Settling /\ at \notin {"intend", "open", "enable", "import", "unlink"}
    BY <1>22 DEF OrphanEnds
  <2>2. CASE Granted /\ receipt' = IF receipt = None THEN None ELSE issued + 1
    <3>1. receipt' = issued + 1 /\ refs' = {issued + 1} /\ issued' = issued + 1 /\ issued + 1 \in Tokens
      BY <2>1, <2>2 DEF Granted
    <3> QED BY <1>22, <2>1, <3>1 DEF OrphanEnds
  <2>3. CASE UNCHANGED <<issued, refs, receipt>>
    BY <1>22, <2>1, <2>3 DEF OrphanEnds
  <2> QED BY <1>22, <2>2, <2>3 DEF OrphanEnds
<1>23. CASE Reboot
  BY <1>23 DEF Reboot
<1>24. CASE UNCHANGED vars
  BY <1>24 DEF vars
<1> QED BY <1>1, <1>2, <1>3, <1>4, <1>5, <1>6, <1>7, <1>8, <1>9, <1>10, <1>11, <1>12, <1>13,
           <1>14, <1>15, <1>16, <1>17, <1>18, <1>19, <1>20, <1>21, <1>22, <1>23, <1>24 DEF Next

(* An enable reference of pf can always be given back, and there is at most one: the
   order of journal, receipt and command in up_with and cleanup (pf.rs) is right for any
   number of tokens, crashes and failing commands. *)
THEOREM ReferenceAccounted ==
    ASSUME PfConstants
    PROVE  Spec => []PfReferenceAccounted
<1>1. Init => PfInv
  BY PfStart
<1>2. PfInv /\ [Next]_vars => PfInv'
  BY PfStep
<1>3. PfInv => PfReferenceAccounted
  <2> SUFFICES ASSUME PfInv, refs # {} PROVE PfReferenceAccounted
    BY DEF PfReferenceAccounted
  <2>1. PICK t \in Tokens : refs = {t}
    BY DEF PfConstants, PfInv, PfTypeOK, Journaled, Owner, Tokens
  <2>2. journal # None /\ (journal.token \in refs \/ (journal.acquiring /\ receipt # None))
    BY DEF PfConstants, PfInv, PfTypeOK, Journaled, Owner, Tokens
  <2> QED BY <2>1, <2>2 DEF PfReferenceAccounted
<1> QED BY <1>1, <1>2, <1>3, PTL DEF Spec

(* Rules are in the anchor only while pf is kept enabled and forwarding leased (pf.rs:
   the rules come last and go first). *)
THEOREM RulesBacked ==
    ASSUME PfConstants
    PROVE  Spec => []PfRulesBacked
<1>1. Init => PfInv
  BY PfStart
<1>2. PfInv /\ [Next]_vars => PfInv'
  BY PfStep
<1>3. PfInv => PfRulesBacked
  BY DEF PfInv, Backed, PfRulesBacked
<1> QED BY <1>1, <1>2, <1>3, PTL DEF Spec
=============================================================================

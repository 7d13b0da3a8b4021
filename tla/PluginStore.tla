------------------------------ MODULE PluginStore ------------------------------
(***************************************************************************)
(* What the Community Store promises about installed plugins: each has the *)
(* code of one version together with the receipt of that version, and an   *)
(* install, its undoing and a removal change both at once.  No crash and   *)
(* no failed step shows in between.                                        *)
(***************************************************************************)
CONSTANTS Plugin,
          StoreVersion,  \* versions the catalog lists
          LocalVersion,  \* versions from elsewhere: the user's own, a ZIP
          NoVersion

VARIABLES code,     \* the version in the plugin's folder
          receipt,  \* the version the store's receipt names
          before    \* both, before the last install

vars == <<code, receipt, before>>

Version == StoreVersion \cup LocalVersion

\* Only what the store installed has a receipt.
ReceiptFor(v) == IF v \in StoreVersion THEN v ELSE NoVersion

Pair(p) == [code |-> code[p], receipt |-> receipt[p]]

Init ==
    /\ code \in [Plugin -> Version \cup {NoVersion}]
    /\ receipt = [p \in Plugin |-> ReceiptFor(code[p])]
    /\ before = [p \in Plugin |-> Pair(p)]

Install(p, v) ==
    /\ before' = [before EXCEPT ![p] = Pair(p)]
    /\ code' = [code EXCEPT ![p] = v]
    /\ receipt' = [receipt EXCEPT ![p] = ReceiptFor(v)]

\* The new version did not start.
Undo(p) ==
    /\ code' = [code EXCEPT ![p] = before[p].code]
    /\ receipt' = [receipt EXCEPT ![p] = before[p].receipt]
    /\ UNCHANGED before

Remove(p) ==
    /\ code' = [code EXCEPT ![p] = NoVersion]
    /\ receipt' = [receipt EXCEPT ![p] = NoVersion]
    /\ UNCHANGED before

Next == \E p \in Plugin : (\E v \in Version : Install(p, v)) \/ Undo(p) \/ Remove(p)

Spec == Init /\ [][Next]_vars
================================================================================

------------------------------ MODULE SharedKey ------------------------------
(****************************************************************************)
(* What tier3/output_provenance.py promises the processes of one user,      *)
(* without files, links or temporary names: the key is created once, each   *)
(* call that loads it gets it, and it alone signs the marker of the root,   *)
(* which a call whose sync fails withdraws.  OutputProvenance implements    *)
(* this module.                                                             *)
(****************************************************************************)
CONSTANTS Calls, None

VARIABLES
    key,        \* None until it is created
    got,        \* the key each call has loaded
    signed      \* the key that signed the marker of the root

vars == <<key, got, signed>>

Init == key = None /\ got = [p \in Calls |-> None] /\ signed = None

Create ==
    /\ key = None
    /\ key' \in Calls
    /\ UNCHANGED <<got, signed>>

Load(p) ==
    /\ key # None
    /\ got' = [got EXCEPT ![p] = key]
    /\ UNCHANGED <<key, signed>>

Sign(p) ==
    /\ signed = None
    /\ got[p] = key /\ signed' = key
    /\ UNCHANGED <<key, got>>

Withdraw ==
    /\ signed' = None
    /\ UNCHANGED <<key, got>>

Next == Create \/ Withdraw \/ \E p \in Calls : Load(p) \/ Sign(p)

Spec == Init /\ [][Next]_vars
=============================================================================

----------------------------- MODULE WdmLifetime -----------------------------
(***************************************************************************)
(* What cdc-wdm.c promises about the life of struct wdm_device: it can be  *)
(* opened only while it is bound, and it is freed once, by whichever comes *)
(* last of the unbinding and the closing of the last handle.               *)
(***************************************************************************)
CONSTANT Users

VARIABLES handles,  \* the users that have the device open
          bound,    \* the USB core has not let go of it
          freed

vars == <<handles, bound, freed>>

Init == handles = {} /\ bound = TRUE /\ freed = FALSE

Open(u) ==
  /\ bound
  /\ u \notin handles
  /\ handles' = handles \cup {u}
  /\ UNCHANGED <<bound, freed>>

Close(u) ==
  /\ u \in handles
  /\ handles' = handles \ {u}
  /\ freed' = (~bound /\ handles' = {})
  /\ UNCHANGED bound

Unbind ==
  /\ bound
  /\ bound' = FALSE
  /\ freed' = (handles = {})
  /\ UNCHANGED handles

Next == Unbind \/ \E u \in Users : Open(u) \/ Close(u)

Spec == Init /\ [][Next]_vars
=============================================================================

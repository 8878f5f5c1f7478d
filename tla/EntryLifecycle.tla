--------------------------- MODULE EntryLifecycle ---------------------------
(***************************************************************************)
(* What main_CreateFwBootEntry promises of the entries it makes, seen from *)
(* the firmware: an entry is first a draft (a copy of Windows's under a    *)
(* temporary description), then ready (it decodes to the request) and      *)
(* stays so; only a ready entry is ever the next one to boot.  A run may   *)
(* stop anywhere: nothing here must happen.                                *)
(***************************************************************************)
CONSTANTS Runs, NoRun

VARIABLES state,   \* state[r]: "none", "draft" or "ready"
          armed    \* the run whose entry BootNext points at, or NoRun

Init == state = [r \in Runs |-> "none"] /\ armed = NoRun

Copy(r) == /\ state[r] = "none"
           /\ state' = [state EXCEPT ![r] = "draft"]
           /\ UNCHANGED armed

Complete(r) == /\ state[r] = "draft"
               /\ state' = [state EXCEPT ![r] = "ready"]
               /\ UNCHANGED armed

Arm(r) == /\ state[r] = "ready"
          /\ armed' = r
          /\ UNCHANGED state

Next == \E r \in Runs : Copy(r) \/ Complete(r) \/ Arm(r)

Spec == Init /\ [][Next]_<<state, armed>>
=============================================================================

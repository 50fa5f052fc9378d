---------------------------- MODULE PropertyStore ----------------------------
(***************************************************************************)
(* What the store promises its clients, whatever the shared memory does:   *)
(* a property always has one whole value, an update replaces it in one     *)
(* step, a read returns the value of one instant, and every change is      *)
(* announced through the global serial after it can be read and before the *)
(* next change happens.                                                    *)
(***************************************************************************)
CONSTANTS Props,      \* names of the updatable properties of one area
          Readers,    \* threads or processes that read
          Values      \* the values a property may hold

VARIABLES store,      \* store[p]: the value of property p
          result,     \* result[r]: the value reader r got last
          announced   \* has the last change been announced?

vars == <<store, result, announced>>

Init ==
  /\ store \in [Props -> Values]
  /\ result \in [Readers -> Values]
  /\ announced = TRUE

(* A change of one property; the previous change was announced before it. *)
Change(p, v) ==
  /\ announced
  /\ store' = [store EXCEPT ![p] = v]
  /\ announced' = FALSE
  /\ UNCHANGED result

(* The global serial moves. *)
Announce ==
  /\ announced' = TRUE
  /\ UNCHANGED <<store, result>>

(* A reader is handed the value the property has now. *)
Read(r, p) ==
  /\ result' = [result EXCEPT ![r] = store[p]]
  /\ UNCHANGED <<store, announced>>

Next ==
  \/ \E p \in Props, v \in Values : Change(p, v)
  \/ Announce
  \/ \E r \in Readers, p \in Props : Read(r, p)

Spec == Init /\ [][Next]_vars
=============================================================================

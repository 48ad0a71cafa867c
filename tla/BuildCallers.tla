----------------------------- MODULE BuildCallers -----------------------------
(***************************************************************************)
(* BuildLifecycle under both kinds of caller: whether they wait, before    *)
(* they start a build, for the cancelled one to wind down is decided once. *)
(***************************************************************************)
EXTENDS BuildLifecycle

VARIABLE patient

\* The same operations, called by patient callers.
Patient == INSTANCE BuildLifecycle WITH Calls <- "patient"

callersVars == <<vars, patient>>

CallersInit == Init /\ patient \in BOOLEAN

CallersNext ==
  /\ UNCHANGED patient
  /\ IF patient THEN Patient!Next ELSE Next

CallersSpec == CallersInit /\ [][CallersNext]_callersVars

-----------------------------------------------------------------------------
\* Two operations never run at once if callers are patient (prepare_build_index
\* and prepare_download_model ask whether the context is busy).
PatientRunOneAtATime == patient => OneAtATime

\* Callers who are patient can always cancel what is running (cancel_embed).
PatientCanCancel == patient => RunningIsCancellable
===============================================================================

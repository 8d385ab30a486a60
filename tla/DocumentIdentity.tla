-------------------------- MODULE DocumentIdentity --------------------------
(***************************************************************************)
(* The pure identity policy of src/core/index: given what is known about a *)
(* previously indexed location and a newly observed candidate, what is the *)
(* relationship, and may the location be relinked without further proof?   *)
(*                                                                         *)
(* An std::optional<bool> signal is a member of Signal: "unknown" is the   *)
(* empty optional.                                                         *)
(***************************************************************************)

Signal == {"yes", "no", "unknown"}

PreviousLocationState ==
    {"available", "missingAfterCompleteScan", "rootOffline", "scanIncomplete"}

IdentityDecision ==
    {"sameLocationUnchanged", "sameLocationChanged", "confidentMove",
     "distinctCopy", "newDocument", "ambiguous"}

Evidence ==
    [samePath : BOOLEAN,
     previousLocation : PreviousLocationState,
     sameFilesystemIdentity : Signal,
     sameRevision : Signal,
     samePdfIdentifier : Signal,
     sameContentFingerprint : Signal]

Resolution == [decision : IdentityDecision, mayRelinkAutomatically : BOOLEAN]

(* value_or(false) of every signal: an unknown signal counts as no.        *)
AnySimilarity(e) ==
    "yes" \in {e.sameFilesystemIdentity, e.sameRevision,
               e.samePdfIdentifier, e.sameContentFingerprint}

SamePathDecision(e) ==
    CASE e.sameFilesystemIdentity # "yes" -> "ambiguous"
      [] e.sameFilesystemIdentity = "yes" /\ e.sameRevision = "yes"
            -> "sameLocationUnchanged"
      [] OTHER -> "sameLocationChanged"

NewPathDecision(e) ==
    CASE e.previousLocation = "available" -> "distinctCopy"
      [] e.previousLocation \in {"rootOffline", "scanIncomplete"} -> "ambiguous"
      [] OTHER -> IF e.sameFilesystemIdentity = "yes" THEN "confidentMove"
                  ELSE IF AnySimilarity(e) THEN "ambiguous"
                  ELSE "newDocument"

ReconcileDocumentIdentity(e) ==
    LET decision == IF e.samePath THEN SamePathDecision(e)
                    ELSE NewPathDecision(e)
    IN  [decision |-> decision,
         mayRelinkAutomatically |-> decision = "confidentMove"]
=============================================================================

--------------------------- MODULE ProfileUpgrade ---------------------------
(***************************************************************************)
(* What opening a profile may do to it (DATA_MODEL_AND_FORMATS, section 6: *)
(* migrations are monotonic and versioned, a failure never resets the      *)
(* profile): one whole migration at a time, in order, each recorded with   *)
(* its version at once, and the application id once the schema is current. *)
(* A profile of another application, or of a newer Atlas, never changes.   *)
(***************************************************************************)
EXTENDS ProfileSchema, Integers

VARIABLE profile    \* the application id, the version and the schema

Supported ==
    /\ profile.applicationId # "other"
    /\ profile.userVersion \in 0 .. currentSchemaVersion

Upgrade ==
    LET next == profile.userVersion + 1 IN
    /\ Supported
    /\ next <= currentSchemaVersion
    /\ \A n \in Created(next) : Free(profile.schema, n)
    /\ profile' = [profile EXCEPT !.userVersion = next,
                                  !.schema = Migrated(profile.schema, next)]

Identify ==
    /\ Supported
    /\ profile.userVersion = currentSchemaVersion
    /\ profile.applicationId = "none"
    /\ profile' = [profile EXCEPT !.applicationId = "atlas"]

(* The person, or another program, takes away what stood in the way.       *)
RemoveConflict ==
    \E n \in Name :
        /\ profile.schema[n] = "other"
        /\ profile' = [profile EXCEPT !.schema[n] = "none"]

Next == Upgrade \/ Identify \/ RemoveConflict

Spec == [][Next]_profile
=============================================================================

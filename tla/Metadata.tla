----------------------------- MODULE Metadata -----------------------------
(***************************************************************************)
(* The merging of labels and annotations (metadata.go).  A map is a        *)
(* function on the keys it has; a nil map and an empty one are the same.   *)
(***************************************************************************)
CONSTANT isManagedLabel(_)  \* the managed-by label and the labels under kudeploy.com/

\* Mutant: managed labels the reconciler no longer wants stay.
MergeAll(desired, current, managed) ==
    [key \in DOMAIN desired \cup DOMAIN current |->
        IF key \in DOMAIN desired THEN desired[key] ELSE current[key]]

\* managed: the keys of current for which isManaged holds.
mergeMetadataFunc(desired, current, managed) ==
    [key \in DOMAIN desired \cup (DOMAIN current \ managed) |->
        IF key \in DOMAIN desired THEN desired[key] ELSE current[key]]

mergeManagedLabels(desired, current) ==
    mergeMetadataFunc(desired, current, {key \in DOMAIN current : isManagedLabel(key)})

mergeMetadata(desired, current) == mergeMetadataFunc(desired, current, {})
---------------------------------------------------------------------------
\* A second reconcile finds nothing to change, so that no reconcile causes the next.
Settles(desired, current) ==
    LET labels == mergeManagedLabels(desired, current)
        annotations == mergeMetadata(desired, current)
    IN  /\ mergeManagedLabels(desired, labels) = labels
        /\ mergeMetadata(desired, annotations) = annotations

\* The managed labels become what is desired, whatever was there; labels and annotations
\* of others stay.
TouchesOnlyItsOwn(desired, current) ==
    LET labels == mergeManagedLabels(desired, current)
        annotations == mergeMetadata(desired, current)
    IN  /\ \A key \in DOMAIN desired : labels[key] = desired[key]
        /\ \A key \in DOMAIN labels : isManagedLabel(key) => key \in DOMAIN desired
        /\ \A key \in DOMAIN current \ DOMAIN desired :
              /\ ~isManagedLabel(key) => key \in DOMAIN labels /\ labels[key] = current[key]
              /\ key \in DOMAIN annotations /\ annotations[key] = current[key]
===========================================================================
